---- MODULE Spec2Model ----
(***************************************************************************)
(* BankParser: the pagination and merge engine of BaseLLMService           *)
(* (app/services/llm/base.py).  One extraction job, in text mode           *)
(* (parse_text_statement / _paginate_and_collect) or in image mode         *)
(* (parse_image_statement), against a provider that answers every call     *)
(* with an arbitrary chunk or raises.                                      *)
(***************************************************************************)
EXTENDS Integers, Sequences, FiniteSets, TLC

(* ------------------------------ bounds -------------------------------- *)
\* longest transaction list a single provider chunk carries
MaxTxns == 2
\* longest list of page images handed to parse_image_statement
MaxImages == 3

(* ------------------------- program constants -------------------------- *)
\* _paginate_and_collect(..., max_followups: int = 3)
max_followups == 3

(* --------------------------- Python values ---------------------------- *)
\* Python's None where a string is expected (dict.get default, hint=None)
None == "<None>"
\* Optional[...] holding a dict: <<>> is None, <<d>> is the dict d
Nothing == <<>>
Some(d) == <<d>>

\* A dict is a function from the set of its keys.
Get(d, k, default) == IF k \in DOMAIN d THEN d[k] ELSE default
Pop(d, k) == [x \in DOMAIN d \ {k} |-> d[x]]
Put(d, k, v) == [x \in DOMAIN d \cup {k} |-> IF x = k THEN v ELSE d[x]]

\* JSON numbers and numeric strings: float() maps 5 and "5.0" to the same
\* float.  A value is tagged with its JSON type and carries its magnitude.
Num(n) == [json |-> "number", v |-> n]
NumStr(n) == [json |-> "string", v |-> n]
Float(a) == a.v

\* truthiness of chunk.get("has_more") and chunk.get("next_page_hint")
HasMoreTruthy(d) == "has_more" \in DOMAIN d /\ d["has_more"] = TRUE
HintTruthy(d) ==
    /\ "next_page_hint" \in DOMAIN d
    /\ d["next_page_hint"] # None
    /\ d["next_page_hint"] # ""

(* ------------------------ provider responses -------------------------- *)
\* Transactions a model may return.  T1 and T1s share the key
\* (date, description, float(amount)) but differ as records; so do T3 (no
\* amount key, float default 0.0) and T4 (amount 0).
T1 == [date |-> "2024-01-01", description |-> "coffee", amount |-> Num(5), type |-> "debit"]
T1s == [date |-> "2024-01-01", description |-> "coffee", amount |-> NumStr(5), type |-> "credit"]
T3 == [date |-> "2024-01-02", description |-> "salary", type |-> "credit"]
T4 == [date |-> "2024-01-02", description |-> "salary", amount |-> Num(0), type |-> "credit"]

RECURSIVE SeqsUpTo(_, _)
SeqsUpTo(S, n) ==
    IF n = 0 THEN {<<>>}
    ELSE LET shorter == SeqsUpTo(S, n - 1)
         IN shorter \cup {Append(s, e) : s \in {q \in shorter : Len(q) = n - 1}, e \in S}

TxnLists == SeqsUpTo({T1, T1s, T3, T4}, MaxTxns)

\* header fields of a chunk
HeaderA == [account_holder |-> "Alice", bank_name |-> "BankA",
            account_number |-> "****1111",
            statement_period |-> [start_date |-> "2024-01-01", end_date |-> "2024-01-31"],
            opening_balance |-> Num(10), currency |-> "USD"]
HeaderB == [account_holder |-> "Bob", bank_name |-> "BankB",
            account_number |-> "****2222",
            statement_period |-> [start_date |-> "2024-02-01", end_date |-> "2024-02-29"],
            opening_balance |-> Num(20), currency |-> "EUR"]
\* a page that carries only part of the header (no account_number, no currency)
HeaderPartial == Pop(Pop(HeaderB, "account_number"), "currency")

HasMoreVals == {"absent", "false", "true"}
HintVals == {"absent", None, "", "p2", "p3"}

WithHasMore(d, hm) ==
    IF hm = "absent" THEN d ELSE Put(d, "has_more", hm = "true")
WithHint(d, h) ==
    IF h = "absent" THEN d ELSE Put(d, "next_page_hint", h)
WithClosing(d, cb) ==
    IF cb = <<>> THEN d ELSE Put(d, "closing_balance", Num(cb[1]))

\* Chunks that vary the continuation fields over every combination.
ControlChunks ==
    {WithHint(WithHasMore(Put(Put(HeaderA, "closing_balance", Num(100)),
                              "transactions", <<T1>>), hm), h) :
        hm \in HasMoreVals, h \in HintVals}
\* Chunks that vary the header and closing_balance (<<>> is a chunk without
\* the closing_balance key); half of them ask for a continuation.
HeaderChunks ==
    {WithHint(WithHasMore(WithClosing(Put(hd, "transactions", <<T3>>), cb),
                          c[1]), c[2]) :
        hd \in {HeaderB, HeaderPartial}, cb \in {<<>>, <<200>>, <<300>>},
        c \in {<<"true", "p2">>, <<"false", "absent">>}}
\* Chunks that vary the transaction list (and its absence); last pages.
TxnChunks ==
    {Put(Put(Put(HeaderA, "closing_balance", Num(100)), "has_more", FALSE),
         "transactions", l) : l \in TxnLists}
    \cup {Put(Put(HeaderA, "closing_balance", Num(100)), "has_more", FALSE)}

ProviderChunks == ControlChunks \cup HeaderChunks \cup TxnChunks

\* Three of these chunks: a page that asks for a continuation, a last page,
\* and a last page without account_number and currency.
ConcChunks ==
    { WithHint(WithHasMore(Put(Put(HeaderA, "closing_balance", Num(100)),
                               "transactions", <<T1>>), "true"), "p2"),
      WithHasMore(WithClosing(Put(HeaderB, "transactions", <<T3>>), <<200>>),
                  "false"),
      WithHasMore(Put(HeaderPartial, "transactions", <<T3>>), "false") }

\* the replies the provider may give: any chunk, or, when two jobs run at
\* once, one of the three above
Replies(p) == IF p = "any" THEN ProviderChunks ELSE ConcChunks

TextDocs == {"docA", "docB"}
ImageLists == SeqsUpTo({"imgA", "imgB"}, MaxImages)

(* ------------------------------ merging ------------------------------- *)
\* (t.get("date"), t.get("description"), float(t.get("amount", 0.0)))
TxnKey(t) == <<Get(t, "date", None), Get(t, "description", None),
               Float(Get(t, "amount", Num(0)))>>

\* d.get("transactions", [])
TxnsOf(d) == Get(d, "transactions", <<>>)

\* seen = set(key(t) for t in merged.get("transactions", []))
SeenOf(txns) == {TxnKey(txns[i]) : i \in 1..Len(txns)}

\* mutant: seen.add(key) forgotten, so a key repeated inside nxt is appended
\* every time
RECURSIVE AppendNew_NoSeenAdd(_, _, _, _)
AppendNew_NoSeenAdd(acc, seen, nxtTxns, i) ==
    IF i > Len(nxtTxns) THEN acc
    ELSE LET t == nxtTxns[i]
             key == TxnKey(t)
         IN IF key \notin seen
            THEN AppendNew_NoSeenAdd(Append(acc, t), seen, nxtTxns, i + 1)
            ELSE AppendNew_NoSeenAdd(acc, seen, nxtTxns, i + 1)

\* mutant: duplicates recognised by comparing whole transactions, not keys
RECURSIVE AppendNew_ByRecord(_, _, _, _)
AppendNew_ByRecord(acc, seen, nxtTxns, i) ==
    IF i > Len(nxtTxns) THEN acc
    ELSE LET t == nxtTxns[i]
         IN IF \A j \in 1..Len(acc) : acc[j] # t
            THEN AppendNew_ByRecord(Append(acc, t), seen, nxtTxns, i + 1)
            ELSE AppendNew_ByRecord(acc, seen, nxtTxns, i + 1)

\* the for loop of _merge_chunks over nxt's transactions from position i on:
\* acc is merged's list so far, seen the keys seen so far
RECURSIVE AppendNew(_, _, _, _)
AppendNew(acc, seen, nxtTxns, i) ==
    IF i > Len(nxtTxns) THEN acc
    ELSE LET t == nxtTxns[i]
             key == TxnKey(t)
         IN IF key \notin seen
            THEN AppendNew(Append(acc, t), seen \cup {key}, nxtTxns, i + 1)
            ELSE AppendNew(acc, seen, nxtTxns, i + 1)

\* the transaction part of _merge_chunks: setdefault creates the key only
\* when something is appended
MergeTransactions(first, nxt) ==
    LET base == TxnsOf(first)
        out == AppendNew(base, SeenOf(base), TxnsOf(nxt), 1)
    IN IF "transactions" \in DOMAIN first \/ Len(out) > Len(base)
       THEN Put(first, "transactions", out)
       ELSE first

\* mutant: closing_balance is only filled in when the accumulator has none
MergeClosingBalance_FirstWins(m, nxt) ==
    IF "closing_balance" \in DOMAIN nxt /\ "closing_balance" \notin DOMAIN m
    THEN Put(m, "closing_balance", nxt["closing_balance"])
    ELSE m

\* if "closing_balance" in nxt: merged["closing_balance"] = nxt[...]
MergeClosingBalance(m, nxt) ==
    IF "closing_balance" \in DOMAIN nxt
    THEN Put(m, "closing_balance", nxt["closing_balance"])
    ELSE m

\* mutant: a hint left by an earlier chunk is not removed
MergeContinuation_StaleHint(m, nxt) ==
    LET m1 == Put(m, "has_more", HasMoreTruthy(nxt))
    IN IF HintTruthy(nxt)
       THEN Put(m1, "next_page_hint", nxt["next_page_hint"])
       ELSE m1

\* has_more / next_page_hint propagation
MergeContinuation(m, nxt) ==
    LET m1 == Put(m, "has_more", HasMoreTruthy(nxt))
    IN IF HintTruthy(nxt)
       THEN Put(m1, "next_page_hint", nxt["next_page_hint"])
       ELSE Pop(m1, "next_page_hint")

\* mutant: the merge starts from the newer chunk's header (dict(nxt))
_merge_chunks_HeaderFromNxt(first, nxt) ==
    LET keep == {"transactions", "closing_balance"} \cap DOMAIN first
        start == [k \in (DOMAIN nxt \ {"transactions", "closing_balance"}) \cup keep |->
                    IF k \in keep THEN first[k] ELSE nxt[k]]
    IN MergeContinuation(MergeClosingBalance(MergeTransactions(start, nxt), nxt), nxt)

_merge_chunks(first, nxt) ==
    MergeContinuation(MergeClosingBalance(MergeTransactions(first, nxt), nxt), nxt)

(* ----------------------------- normalizer ----------------------------- *)
\* mutant: the balance is converted whenever the key is present
BalanceTruthy_KeyPresent(t) == "balance" \in DOMAIN t

\* float(txn_data["balance"]) if txn_data.get("balance") else None: a JSON
\* null and the number 0 are falsy, a string such as "0" is not
BalanceTruthy(t) ==
    /\ "balance" \in DOMAIN t
    /\ t["balance"].json # "null"
    /\ ~(t["balance"].json = "number" /\ t["balance"].v = 0)

TxnRequired == {"date", "description", "amount", "type"}
StatementRequired == {"account_holder", "bank_name", "account_number",
                      "statement_period", "opening_balance", "closing_balance"}

\* Transaction(date=..., description=..., amount=float(...), ...)
ConvertTxn(t) ==
    [date |-> t["date"], description |-> t["description"],
     amount |-> Float(t["amount"]), type |-> t["type"],
     category |-> Get(t, "category", None),
     balance |-> IF BalanceTruthy(t) THEN <<Float(t["balance"])>> ELSE <<>>]

\* returns the BankStatement, or the KeyError of the first missing key
_convert_to_bank_statement(data) ==
    LET txns == Get(data, "transactions", <<>>)
    IN IF \E i \in 1..Len(txns) : ~(TxnRequired \subseteq DOMAIN txns[i])
       THEN [status |-> "error", error |-> "KeyError"]
       ELSE IF ~(StatementRequired \subseteq DOMAIN data)
       THEN [status |-> "error", error |-> "KeyError"]
       ELSE [status |-> "ok",
             statement |->
               [account_holder |-> data["account_holder"],
                bank_name |-> data["bank_name"],
                account_number |-> data["account_number"],
                statement_period |-> data["statement_period"],
                opening_balance |-> Float(data["opening_balance"]),
                closing_balance |-> Float(data["closing_balance"]),
                transactions |-> [i \in 1..Len(txns) |-> ConvertTxn(txns[i])],
                currency |-> Get(data, "currency", "USD")]]

(* ------------------------------- state -------------------------------- *)
VARIABLES
    mode,             \* "text": parse_text_statement, "image": parse_image_statement
    pc,               \* position of the job's coroutine
    text_content,     \* argument of parse_text_statement
    base64_images,    \* argument of parse_image_statement
    idx,              \* index (0-based) of the image the for loop is at
    seen_hashes,      \* parse_image_statement's set of digests
    merged,           \* the accumulator (Nothing while it is None)
    attempts,         \* _paginate_and_collect's follow-up counter
    calls,            \* log of the provider calls issued so far
    chunks,           \* log of the chunks the provider returned so far
    prev,             \* the accumulator handed to the latest _merge_chunks
    normalizer_input, \* the dict handed to _convert_to_bank_statement
    result,           \* what the job returned or raised
    file,             \* parse_statement's upload
    use_vision,       \* parse_statement's use_vision argument
    stage,            \* where parse_statement is
    steps,            \* log of the steps parse_statement has begun
    raised,           \* the exception raised inside parse_statement's try block
    response,         \* the ParsedResponse parse_statement returned
    cur,              \* the job whose coroutine the event loop is running
    other,            \* the frame of the suspended coroutine of the other job
    provider,         \* which replies the provider gives in this run
    raw_content,      \* the text handed to JSON recovery
    rpc,              \* where _parse_response_json is
    recovered,        \* what _parse_response_json returned or raised
    applied,          \* a repair applied to raw_content on its own, and its output
    llm_provider,     \* the route's llm_provider parameter (None without a route)
    llm_service,      \* the class of the orchestrator's llm_service
    pdf_processor,    \* the class of the orchestrator's pdf_processor
    http,             \* the JSONResponse the route returned
    projects,         \* table projects: id -> row
    categories,       \* table categories: id -> row
    bank_accounts,    \* table bank_accounts: id -> row
    statement_files,  \* table bank_statement_files: id -> row
    next_id,          \* the next primary key uuid.uuid4 hands out
    crud_result       \* what the latest call of a CRUD service returned or raised

\* the variables of parse_statement, which the engine never touches
orch == <<file, use_vision, stage, steps, raised, response>>

\* the variables of the event loop, which neither the engine nor
\* parse_statement touches
sched == <<cur, other, provider>>

vars == <<mode, pc, text_content, base64_images, idx, seen_hashes, merged,
          attempts, calls, chunks, prev, normalizer_input, result,
          file, use_vision, stage, steps, raised, response,
          cur, other, provider, raw_content, rpc, recovered, applied,
          llm_provider, llm_service, pdf_processor, http,
          projects, categories, bank_accounts, statement_files, next_id,
          crud_result>>

\* the variables of JSON recovery
rec == <<raw_content, rpc, recovered, applied>>

\* the variables of the parse-statement route and of the orchestrator's
\* construction
route == <<llm_provider, llm_service, pdf_processor, http>>

\* the variables of the CRUD services
store == <<projects, categories, bank_accounts, statement_files, next_id,
           crud_result>>

Pending == [status |-> "pending"]

Init ==
    /\ mode \in {"text", "image"}
    /\ pc = "start"
    /\ IF mode = "text"
       THEN text_content \in TextDocs /\ base64_images = <<>>
       ELSE text_content = None /\ base64_images \in ImageLists
    /\ idx = 0
    /\ seen_hashes = {}
    /\ merged = Nothing
    /\ attempts = 0
    /\ calls = <<>>
    /\ chunks = <<>>
    /\ prev = Nothing
    /\ normalizer_input = Nothing
    /\ result = Pending
    /\ file = Nothing
    /\ use_vision = (mode = "image")
    /\ stage = "direct"
    /\ steps = <<>>
    /\ raised = Nothing
    /\ response = Nothing
    /\ cur = 1
    /\ other = Nothing
    /\ provider = "any"
    /\ raw_content = <<>>
    /\ rpc = "idle"
    /\ recovered = Pending
    /\ applied = Nothing
    /\ llm_provider = None
    /\ llm_service = "BaseLLMService"
    /\ pdf_processor = "ImageExtractor"
    /\ http = Nothing
    /\ projects = <<>>
    /\ categories = <<>>
    /\ bank_accounts = <<>>
    /\ statement_files = <<>>
    /\ next_id = 1
    /\ crud_result = Nothing

(* ----------------------------- text mode ------------------------------ *)
\* first = await self._single_text_call(text_content, next_page_hint=None)
TextFirstCall ==
    /\ mode = "text" /\ pc = "start"
    /\ calls' = Append(calls, [kind |-> "text", text |-> text_content,
                               images |-> <<>>, hint |-> None])
    /\ pc' = "await_first"
    /\ UNCHANGED <<mode, text_content, base64_images, idx, seen_hashes, merged,
                   attempts, chunks, prev, normalizer_input, result>>
    /\ UNCHANGED <<orch, sched, rec, route, store>>

\* the first chunk arrives: merged = dict(first_chunk); attempts = 0
TextFirstReply ==
    /\ pc = "await_first"
    /\ \E c \in Replies(provider) :
         /\ chunks' = Append(chunks, c)
         /\ merged' = Some(c)
    /\ attempts' = 0
    /\ pc' = "paginate"
    /\ UNCHANGED <<mode, text_content, base64_images, idx, seen_hashes, calls,
                   prev, normalizer_input, result>>
    /\ UNCHANGED <<orch, sched, rec, route, store>>

\* mutant: the cap compared with <= (one follow-up too many)
ContinueCond_OffByOne(m, n) ==
    /\ n <= max_followups
    /\ HasMoreTruthy(m)
    /\ HintTruthy(m)

\* the while condition of _paginate_and_collect
ContinueCond(m, n) ==
    /\ n < max_followups
    /\ HasMoreTruthy(m)
    /\ HintTruthy(m)

\* mutant: the follow-up is issued without the bookmark
FetchHint_Dropped(m) == None

\* hint = merged.get("next_page_hint")
FetchHint(m) == Get(m, "next_page_hint", None)

\* nxt = await fetch_next(hint)
TextFollowupCall ==
    /\ pc = "paginate"
    /\ ContinueCond(merged[1], attempts)
    /\ calls' = Append(calls, [kind |-> "text", text |-> text_content,
                               images |-> <<>>, hint |-> FetchHint(merged[1])])
    /\ pc' = "await_next"
    /\ UNCHANGED <<mode, text_content, base64_images, idx, seen_hashes, merged,
                   attempts, chunks, prev, normalizer_input, result>>
    /\ UNCHANGED <<orch, sched, rec, route, store>>

\* merged = self._merge_chunks(merged, nxt); attempts += 1
TextFollowupReply ==
    /\ pc = "await_next"
    /\ \E c \in Replies(provider) :
         /\ chunks' = Append(chunks, c)
         /\ merged' = Some(_merge_chunks(merged[1], c))
    /\ prev' = merged
    /\ attempts' = attempts + 1
    /\ pc' = "paginate"
    /\ UNCHANGED <<mode, text_content, base64_images, idx, seen_hashes, calls,
                   normalizer_input, result>>
    /\ UNCHANGED <<orch, sched, rec, route, store>>

\* mutant: only has_more is popped before the conversion
TextFinish_KeepsHint ==
    /\ pc = "paginate"
    /\ ~ContinueCond(merged[1], attempts)
    /\ LET out == Pop(merged[1], "has_more")
       IN /\ normalizer_input' = Some(out)
          /\ result' = _convert_to_bank_statement(out)
    /\ pc' = "done"
    /\ UNCHANGED <<mode, text_content, base64_images, idx, seen_hashes, merged,
                   attempts, calls, chunks, prev>>
    /\ UNCHANGED <<orch, sched, rec, route, store>>

\* the loop ends: pop the pagination fields, convert, return
TextFinish ==
    /\ pc = "paginate"
    /\ ~ContinueCond(merged[1], attempts)
    /\ LET out == Pop(Pop(merged[1], "has_more"), "next_page_hint")
       IN /\ normalizer_input' = Some(out)
          /\ result' = _convert_to_bank_statement(out)
    /\ pc' = "done"
    /\ UNCHANGED <<mode, text_content, base64_images, idx, seen_hashes, merged,
                   attempts, calls, chunks, prev>>
    /\ UNCHANGED <<orch, sched, rec, route, store>>

(* ----------------------------- image mode ----------------------------- *)
\* hashlib.sha1(img.encode("utf-8")).hexdigest() of the images of ImagePool
Sha1Hex(img) ==
    CASE img = "imgA" -> "05c6288387bbcd74ac17ae0cd7414ce489e5a62a"
      [] img = "imgB" -> "e8c4145024ca64a5dd80e626b2eb76e57ffd01ef"

\* f"page={idx + 1}"
PageHint(i) == "page=" \o ToString(i + 1)

Skeleton ==
    [account_holder |-> "", bank_name |-> "", account_number |-> "",
     statement_period |-> [start_date |-> "", end_date |-> ""],
     opening_balance |-> Num(0), closing_balance |-> Num(0),
     transactions |-> <<>>, currency |-> "USD"]

\* merged = None; seen_hashes = set()
ImageBegin ==
    /\ mode = "image" /\ pc = "start"
    /\ merged' = Nothing
    /\ seen_hashes' = {}
    /\ idx' = 0
    /\ pc' = "img_loop"
    /\ UNCHANGED <<mode, text_content, base64_images, attempts, calls, chunks,
                   prev, normalizer_input, result>>
    /\ UNCHANGED <<orch, sched, rec, route, store>>

\* if img_hash in seen_hashes: continue
ImageSkip ==
    /\ pc = "img_loop"
    /\ idx < Len(base64_images)
    /\ Sha1Hex(base64_images[idx + 1]) \in seen_hashes
    /\ idx' = idx + 1
    /\ UNCHANGED <<mode, pc, text_content, base64_images, seen_hashes, merged,
                   attempts, calls, chunks, prev, normalizer_input, result>>
    /\ UNCHANGED <<orch, sched, rec, route, store>>

\* mutant: seen_hashes.add(img_hash) forgotten
ImageCall_NoSeenAdd ==
    /\ pc = "img_loop"
    /\ idx < Len(base64_images)
    /\ Sha1Hex(base64_images[idx + 1]) \notin seen_hashes
    /\ calls' = Append(calls, [kind |-> "image", text |-> None,
                               images |-> <<base64_images[idx + 1]>>,
                               hint |-> PageHint(idx)])
    /\ pc' = "await_img"
    /\ UNCHANGED <<mode, text_content, base64_images, idx, seen_hashes, merged,
                   attempts, chunks, prev, normalizer_input, result>>
    /\ UNCHANGED <<orch, sched, rec, route, store>>

\* seen_hashes.add(img_hash); chunk = await self._single_image_call([img], ...)
ImageCall ==
    /\ pc = "img_loop"
    /\ idx < Len(base64_images)
    /\ Sha1Hex(base64_images[idx + 1]) \notin seen_hashes
    /\ seen_hashes' = seen_hashes \cup {Sha1Hex(base64_images[idx + 1])}
    /\ calls' = Append(calls, [kind |-> "image", text |-> None,
                               images |-> <<base64_images[idx + 1]>>,
                               hint |-> PageHint(idx)])
    /\ pc' = "await_img"
    /\ UNCHANGED <<mode, text_content, base64_images, idx, merged, attempts,
                   chunks, prev, normalizer_input, result>>
    /\ UNCHANGED <<orch, sched, rec, route, store>>

\* mutant: the new page is taken as the base and the accumulator merged into it
ImageReply_NewPageFirst ==
    /\ pc = "await_img"
    /\ \E c \in Replies(provider) :
         /\ chunks' = Append(chunks, c)
         /\ merged' = IF merged = Nothing THEN Some(c)
                      ELSE Some(_merge_chunks(c, merged[1]))
    /\ prev' = merged
    /\ idx' = idx + 1
    /\ pc' = "img_loop"
    /\ UNCHANGED <<mode, text_content, base64_images, seen_hashes, attempts,
                   calls, normalizer_input, result>>
    /\ UNCHANGED <<orch, sched, rec, route, store>>

\* merged = chunk if merged is None else self._merge_chunks(merged, chunk)
ImageReply ==
    /\ pc = "await_img"
    /\ \E c \in Replies(provider) :
         /\ chunks' = Append(chunks, c)
         /\ merged' = IF merged = Nothing THEN Some(c)
                      ELSE Some(_merge_chunks(merged[1], c))
    /\ prev' = merged
    /\ idx' = idx + 1
    /\ pc' = "img_loop"
    /\ UNCHANGED <<mode, text_content, base64_images, seen_hashes, attempts,
                   calls, normalizer_input, result>>
    /\ UNCHANGED <<orch, sched, rec, route, store>>

\* mutant: the empty-list case is not given the skeleton and the pop on None
\* raises
ImageFinish_NoSkeleton ==
    /\ pc = "img_loop"
    /\ idx = Len(base64_images)
    /\ IF merged = Nothing
       THEN /\ result' = [status |-> "error", error |-> "AttributeError"]
            /\ pc' = "failed"
            /\ UNCHANGED normalizer_input
       ELSE LET out == Pop(Pop(merged[1], "has_more"), "next_page_hint")
            IN /\ normalizer_input' = Some(out)
               /\ result' = _convert_to_bank_statement(out)
               /\ pc' = "done"
    /\ UNCHANGED <<mode, text_content, base64_images, idx, seen_hashes, merged,
                   attempts, calls, chunks, prev>>
    /\ UNCHANGED <<orch, sched, rec, route, store>>

\* after the loop: skeleton when nothing was parsed, pop, convert, return
ImageFinish ==
    /\ pc = "img_loop"
    /\ idx = Len(base64_images)
    /\ LET m == IF merged = Nothing THEN Skeleton ELSE merged[1]
           out == Pop(Pop(m, "has_more"), "next_page_hint")
       IN /\ normalizer_input' = Some(out)
          /\ result' = _convert_to_bank_statement(out)
    /\ pc' = "done"
    /\ UNCHANGED <<mode, text_content, base64_images, idx, seen_hashes, merged,
                   attempts, calls, chunks, prev>>
    /\ UNCHANGED <<orch, sched, rec, route, store>>

(* ------------------------------ provider ------------------------------ *)
\* mutant: a failed page call is swallowed and the loop goes on to the next
\* page
ProviderRaises_SkipPage ==
    /\ pc \in {"await_first", "await_next", "await_img"}
    /\ result' = [status |-> "error", error |-> "ProviderError"]
    /\ IF pc = "await_img"
       THEN pc' = "img_loop" /\ idx' = idx + 1
       ELSE pc' = "failed" /\ UNCHANGED idx
    /\ UNCHANGED <<mode, text_content, base64_images, seen_hashes, merged,
                   attempts, calls, chunks, prev, normalizer_input>>
    /\ UNCHANGED <<orch, sched, rec, route, store>>

\* a provider call raises; nothing in base.py catches it
ProviderRaises ==
    /\ pc \in {"await_first", "await_next", "await_img"}
    /\ result' = [status |-> "error", error |-> "ProviderError"]
    /\ pc' = "failed"
    /\ UNCHANGED <<mode, text_content, base64_images, idx, seen_hashes, merged,
                   attempts, calls, chunks, prev, normalizer_input>>
    /\ UNCHANGED <<orch, sched, rec, route, store>>

Spec ==
    Init /\ [][\/ TextFirstCall
               \/ TextFirstReply
               \/ TextFollowupCall
               \/ TextFollowupReply
               \/ TextFinish
               \/ ImageBegin
               \/ ImageSkip
               \/ ImageCall
               \/ ImageReply
               \/ ImageFinish
               \/ ProviderRaises]_vars

\* A text-mode job on its own.  The event loop resumes the job's coroutine
\* whenever it can run, and a provider call that was issued returns or raises.
TextInit == Init /\ mode = "text"
TextNext ==
    \/ TextFirstCall
    \/ TextFirstReply
    \/ TextFollowupCall
    \/ TextFollowupReply
    \/ TextFinish
    \/ ProviderRaises
FairTextSpec == TextInit /\ [][TextNext]_vars /\ WF_vars(TextNext)

Finished == pc \in {"done", "failed"}

(* ------------------------------- claims ------------------------------- *)
\* C1: a text-mode job issues at most 4 provider calls (1 initial + at most
\* 3 follow-ups), whatever the provider answers, and then finishes.
C1_TextCallsBounded ==
    /\ [](mode = "text" => Len(calls) <= 4)
    /\ ((mode = "text") ~> Finished)

\* C1 witness: every chunk asked for a continuation, the job made its 4th
\* call and returned.
C1_Witness ==
    /\ mode = "text" /\ pc = "done" /\ Len(calls) = 4 /\ Len(chunks) = 4
    /\ \A i \in 1..4 :
         /\ "has_more" \in DOMAIN chunks[i] /\ chunks[i]["has_more"] = TRUE
         /\ "next_page_hint" \in DOMAIN chunks[i]
         /\ chunks[i]["next_page_hint"] \in {"p2", "p3"}

\* C2: after a chunk, a follow-up call is issued if and only if fewer than 3
\* follow-ups were issued, the latest chunk's has_more is true and the latest
\* chunk carries a non-empty next_page_hint; otherwise the job goes to DONE
\* without another call.  Only the latest chunk counts.
C2_FollowupIffLatestChunkAsks ==
    [][(mode = "text" /\ pc = "paginate") =>
        LET latest == chunks[Len(chunks)]
            asks == /\ Len(calls) - 1 < 3
                    /\ "has_more" \in DOMAIN latest /\ latest["has_more"] = TRUE
                    /\ "next_page_hint" \in DOMAIN latest
                    /\ latest["next_page_hint"] \notin {None, ""}
        IN /\ asks => (pc' = "await_next" /\ Len(calls') = Len(calls) + 1)
           /\ ~asks => (pc' = "done" /\ calls' = calls)]_vars

\* C2 witness: the first chunk left a hint, the second has has_more = true
\* but no hint, and the job stopped after the second call.
C2_Witness ==
    /\ mode = "text" /\ pc = "done" /\ Len(calls) = 2 /\ Len(chunks) = 2
    /\ "next_page_hint" \in DOMAIN chunks[1] /\ chunks[1]["next_page_hint"] = "p2"
    /\ "has_more" \in DOMAIN chunks[2] /\ chunks[2]["has_more"] = TRUE
    /\ "next_page_hint" \notin DOMAIN chunks[2]

\* C3: the first text call carries no hint (None), the k-th follow-up carries
\* exactly the next_page_hint of the chunk that precedes it, and every call
\* carries the job's full text.
C3_HintChain ==
    mode = "text" =>
        \A i \in 1..Len(calls) :
            /\ calls[i].text = text_content
            /\ (i = 1) => calls[i].hint = None
            /\ (i > 1) => /\ "next_page_hint" \in DOMAIN chunks[i - 1]
                          /\ calls[i].hint = chunks[i - 1]["next_page_hint"]

\* C3 witness: two follow-ups were issued with two different hints.
C3_Witness ==
    /\ mode = "text" /\ Len(calls) = 3
    /\ calls[2].hint = "p3" /\ calls[3].hint = "p2"

\* C4: the record handed to the normalizer, and the Statement built from it,
\* carry neither has_more nor next_page_hint, in text and in image mode.
C4_NoPaginationFields ==
    normalizer_input # Nothing =>
        /\ "has_more" \notin DOMAIN normalizer_input[1]
        /\ "next_page_hint" \notin DOMAIN normalizer_input[1]
        /\ result.status = "ok" =>
             DOMAIN result.statement \cap {"has_more", "next_page_hint"} = {}

\* C4 witness: the follow-up cap stopped the job while the accumulator still
\* had has_more = true and a hint, and a Statement was returned.
C4_Witness ==
    /\ mode = "text" /\ pc = "done" /\ Len(chunks) = 4
    /\ merged[1]["has_more"] = TRUE
    /\ "next_page_hint" \in DOMAIN merged[1]
    /\ result.status = "ok"

\* C5: _merge_chunks(acc, nxt) yields acc's transactions, unchanged and in
\* order, followed by exactly those transactions of nxt, in nxt's order,
\* whose key (date, description, float(amount)) occurs neither in acc nor
\* earlier in nxt.
C5_MergeAppendsNewKeysInOrder ==
    prev # Nothing =>
        LET acc == TxnsOf(prev[1])
            nxt == TxnsOf(chunks[Len(chunks)])
            out == TxnsOf(merged[1])
            fresh == {i \in 1..Len(nxt) :
                        /\ \A j \in 1..Len(acc) : TxnKey(acc[j]) # TxnKey(nxt[i])
                        /\ \A j \in 1..(i - 1) : TxnKey(nxt[j]) # TxnKey(nxt[i])}
        IN /\ Len(out) = Len(acc) + Cardinality(fresh)
           /\ \A j \in 1..Len(acc) : out[j] = acc[j]
           /\ \A i \in fresh :
                out[Len(acc) + Cardinality({j \in fresh : j <= i})] = nxt[i]

\* C5 witness: the accumulator held one transaction; the chunk repeated its
\* key (as a different record) and added a new one; only the new one was
\* appended.
C5_Witness ==
    /\ prev # Nothing
    /\ TxnsOf(prev[1]) = <<T1>>
    /\ TxnsOf(chunks[Len(chunks)]) = <<T1s, T3>>
    /\ TxnsOf(merged[1]) = <<T1, T3>>

\* C6 as stated: merging a chunk all of whose transaction keys are already in
\* the accumulator changes nothing in the accumulator (here even leaving the
\* two continuation fields, which every merge recomputes, aside).
C6_AllDuplicatesChangeNothing ==
    (prev # Nothing /\ SeenOf(TxnsOf(chunks[Len(chunks)])) \subseteq SeenOf(TxnsOf(prev[1]))) =>
        Pop(Pop(merged[1], "has_more"), "next_page_hint")
            = Pop(Pop(prev[1], "has_more"), "next_page_hint")

\* C6 amended: merging a chunk all of whose transaction keys are already in
\* the accumulator leaves the accumulator's transactions and every other
\* field unchanged, except closing_balance, has_more and next_page_hint,
\* which are set from the chunk as in any merge.
C6_AllDuplicatesKeepTransactions ==
    (prev # Nothing /\ SeenOf(TxnsOf(chunks[Len(chunks)])) \subseteq SeenOf(TxnsOf(prev[1]))) =>
        LET moving == {"closing_balance", "has_more", "next_page_hint"}
        IN /\ DOMAIN merged[1] \ moving = DOMAIN prev[1] \ moving
           /\ \A k \in DOMAIN prev[1] \ moving : merged[1][k] = prev[1][k]

\* C6 witness: a chunk whose two transactions both repeat the key of the
\* accumulator's only transaction was merged.
C6_Witness ==
    /\ prev # Nothing
    /\ TxnsOf(prev[1]) = <<T1>>
    /\ TxnsOf(chunks[Len(chunks)]) = <<T1s, T1>>
    /\ TxnsOf(merged[1]) = <<T1>>

\* C7: after folding any sequence of chunks, every top-level field other than
\* transactions, closing_balance, has_more and next_page_hint is present
\* exactly when the first chunk had it, with the first chunk's value; the
\* same holds of the record handed to the normalizer.
C7_HeaderFromFirstChunk ==
    LET moving == {"transactions", "closing_balance", "has_more", "next_page_hint"}
        same(d) == /\ DOMAIN d \ moving = DOMAIN chunks[1] \ moving
                   /\ \A k \in DOMAIN d \ moving : d[k] = chunks[1][k]
    IN chunks # <<>> =>
        /\ merged # Nothing => same(merged[1])
        /\ normalizer_input # Nothing => same(normalizer_input[1])

\* C7 witness: three chunks were folded; the first had a partial header, the
\* second and third a different and fuller one.
C7_Witness ==
    /\ pc = "done" /\ Len(chunks) = 3
    /\ chunks[1]["account_holder"] = "Bob" /\ "currency" \notin DOMAIN chunks[1]
    /\ "currency" \in DOMAIN chunks[2]
    /\ chunks[3]["account_holder"] = "Alice" /\ "currency" \in DOMAIN chunks[3]

\* C8: the merged closing_balance is that of the latest chunk that supplied
\* one; a chunk without the key leaves the accumulated value as it is.
C8_ClosingBalanceLastSeen ==
    merged # Nothing =>
        LET having == {i \in 1..Len(chunks) : "closing_balance" \in DOMAIN chunks[i]}
        IN IF having = {}
           THEN "closing_balance" \notin DOMAIN merged[1]
           ELSE LET last == CHOOSE i \in having : \A j \in having : j <= i
                IN /\ "closing_balance" \in DOMAIN merged[1]
                   /\ merged[1]["closing_balance"] = chunks[last]["closing_balance"]

\* C8 witness: closing_balance was 100, then 200, and the third chunk had
\* none.
C8_Witness ==
    /\ Len(chunks) = 3 /\ Len(calls) = 3 /\ pc \in {"paginate", "img_loop", "done"}
    /\ "closing_balance" \in DOMAIN chunks[1] /\ chunks[1]["closing_balance"] = Num(100)
    /\ "closing_balance" \in DOMAIN chunks[2] /\ chunks[2]["closing_balance"] = Num(200)
    /\ "closing_balance" \notin DOMAIN chunks[3]

\* C9: the Statement a job returns holds no two transactions with the same
\* (date, description, amount), for every sequence of one or more chunks.
C9_StatementDeduplicated ==
    (pc = "done" /\ result.status = "ok") =>
        LET txns == result.statement.transactions
        IN \A i, j \in 1..Len(txns) :
             (i < j) => <<txns[i].date, txns[i].description, txns[i].amount>>
                          # <<txns[j].date, txns[j].description, txns[j].amount>>

\* C10: in image mode a provider call is issued for exactly the first
\* occurrence of each image among the list positions visited so far (the one
\* whose call is pending or has raised included), carrying that image alone;
\* once the list is worked through, the number of calls is the number of
\* distinct images.
C10_OneCallPerDistinctImage ==
    mode = "image" =>
        LET visited == IF pc \in {"await_img", "failed"} THEN idx + 1 ELSE idx
            firsts == {i \in 1..visited :
                         \A j \in 1..(i - 1) : base64_images[j] # base64_images[i]}
        IN /\ Len(calls) = Cardinality(firsts)
           /\ \A i \in firsts :
                \E c \in 1..Len(calls) :
                    /\ calls[c].images = <<base64_images[i]>>
                    /\ calls[c].hint = "page=" \o ToString(i)
           /\ \A c, e \in 1..Len(calls) : (c # e) => calls[c].images # calls[e].images
           /\ (pc = "done") =>
                Len(calls) = Cardinality({base64_images[i] : i \in 1..Len(base64_images)})

\* C10 witness: the list imgA, imgB, imgA was worked through with two calls.
C10_Witness ==
    /\ mode = "image" /\ pc = "done"
    /\ base64_images = <<"imgA", "imgB", "imgA">>
    /\ Len(calls) = 2

(* --------------------- OpenAI adapter: image request ------------------ *)
\* the text part of the user message OpenAIService._single_image_call sends:
\* the fresh-parse sentence if not next_page_hint, else a continuation request
ImageUserText(next_page_hint) ==
    IF next_page_hint \in {None, ""}
    THEN "Parse this bank statement from the provided images:"
    ELSE "Continue parsing this bank statement starting from: " \o next_page_hint

(* ---------------------------- image claims ---------------------------- *)
\* C11: image mode with an empty image list makes no provider call and
\* returns, without error, the empty skeleton Statement (empty strings, empty
\* period dates, balances 0, no transactions, currency "USD").
C11_EmptyImageListGivesSkeleton ==
    (mode = "image" /\ base64_images = <<>>) =>
        /\ calls = <<>>
        /\ pc # "failed"
        /\ (pc = "done") =>
             result = [status |-> "ok",
                       statement |->
                         [account_holder |-> "", bank_name |-> "",
                          account_number |-> "",
                          statement_period |-> [start_date |-> "", end_date |-> ""],
                          opening_balance |-> 0, closing_balance |-> 0,
                          transactions |-> <<>>, currency |-> "USD"]]

\* C11 witness: the job on the empty list has returned.
C11_Witness ==
    mode = "image" /\ base64_images = <<>> /\ pc = "done" /\ result.status = "ok"

RECURSIVE FoldChunks(_, _)
\* left fold of _merge_chunks over the first k chunks of chs (k >= 1)
FoldChunks(chs, k) ==
    IF k = 1 THEN chs[1] ELSE _merge_chunks(FoldChunks(chs, k - 1), chs[k])

\* C12: in image mode at most one provider call is in flight, calls are
\* issued in increasing page order, a call is issued only when the chunk of
\* every earlier call has been merged, the accumulator is the left fold of
\* the chunks in that order, and page 1 (the first unique page) supplies the
\* header fields.
C12_ImagePagesFoldedInOrder ==
    mode = "image" =>
        /\ Len(calls) - Len(chunks) = (IF pc \in {"await_img", "failed"} THEN 1 ELSE 0)
        /\ \A c, e \in 1..Len(calls) :
             (c < e) => \E m, n \in 1..Len(base64_images) :
                           /\ m < n
                           /\ calls[c].hint = "page=" \o ToString(m)
                           /\ calls[c].images = <<base64_images[m]>>
                           /\ calls[e].hint = "page=" \o ToString(n)
                           /\ calls[e].images = <<base64_images[n]>>
        /\ (chunks = <<>>) => merged = Nothing
        /\ (chunks # <<>>) =>
             /\ merged = Some(FoldChunks(chunks, Len(chunks)))
             /\ calls[1].hint = "page=1"
             /\ \A k \in {"account_holder", "bank_name", "account_number",
                          "statement_period", "opening_balance", "currency"} :
                  /\ k \in DOMAIN merged[1] <=> k \in DOMAIN chunks[1]
                  /\ k \in DOMAIN chunks[1] => merged[1][k] = chunks[1][k]

\* C12 witness: the job on imgA, imgA, imgB is done; the chunk of page 1
\* (Alice's header) was merged first and the chunk of page 3 (Bob's header)
\* was folded into it, the repeated page 2 having been skipped.
C12_Witness ==
    /\ mode = "image" /\ pc = "done"
    /\ base64_images = <<"imgA", "imgA", "imgB">>
    /\ Len(chunks) = 2
    /\ chunks[1]["account_holder"] = "Alice" /\ chunks[2]["account_holder"] = "Bob"
    /\ TxnsOf(merged[1]) = <<T1, T3>>

\* C13: no request sent to the model in image mode is a continuation request;
\* every per-page request asks for a fresh parse of that page.
C13_ImageRequestsAreFresh ==
    mode = "image" =>
        \A c \in 1..Len(calls) : ImageUserText(calls[c].hint) =
            "Parse this bank statement from the provided images:"

(* ============ parse_statement (parser_service.py, file_validator.py) ===== *)
\* the variables of the engine, which parse_statement's own steps never touch
engine == <<mode, pc, text_content, base64_images, idx, seen_hashes, merged,
            attempts, calls, chunks, prev, normalizer_input, result>>

\* str.lower() on the letters the file names below are made of
LowerSeq(s) ==
    [i \in 1..Len(s) |->
       CASE s[i] = "A" -> "a" [] s[i] = "D" -> "d" [] s[i] = "F" -> "f"
         [] s[i] = "P" -> "p" [] OTHER -> s[i]]
EndsWith(s, suffix) ==
    Len(s) >= Len(suffix) /\ SubSeq(s, Len(s) - Len(suffix) + 1, Len(s)) = suffix
StartsWith(s, prefix) ==
    Len(s) >= Len(prefix) /\ SubSeq(s, 1, Len(prefix)) = prefix

\* settings.max_file_size_mb
max_file_size_mb == 10

\* An upload is Nothing (no file) or Some record; its filename and size are
\* Nothing where Python has None.  The bytes of an upload are its first bytes
\* and the document they belong to.
Uploads ==
    LET PdfHead == <<"%", "P", "D", "F", "-", "1", ".", "7">>
        ZipHead == <<"P", "K", "3", "4">>
        NamePdf == <<"a", ".", "p", "d", "f">>
        NamePDF == <<"A", ".", "P", "D", "F">>
        NameTxt == <<"a", ".", "t", "x", "t">>
        Upload(name, ctype, size, head, doc) ==
            Some([filename |-> name, content_type |-> ctype, size |-> size,
                  content |-> [head |-> head, doc |-> doc]])
    IN { Nothing,
         Upload(Some(NamePdf), "application/pdf", Some(1024), PdfHead, "pdfA"),
         Upload(Some(NamePDF), "application/pdf", Nothing, PdfHead, "pdfB"),
         Upload(Some(NamePdf), "application/pdf",
                Some(max_file_size_mb * 1024 * 1024), PdfHead, "pdfBroken"),
         Upload(Some(NamePdf), "application/pdf",
                Some(max_file_size_mb * 1024 * 1024 + 1), PdfHead, "pdfA"),
         Upload(Some(NameTxt), "application/pdf", Some(1024), PdfHead, "pdfA"),
         Upload(Nothing, "application/pdf", Some(1024), PdfHead, "pdfA"),
         Upload(Some(NamePdf), "text/plain", Some(1024), PdfHead, "pdfA"),
         Upload(Some(NamePdf), "application/pdf", Some(0), ZipHead, "zip") }

\* PDFFileValidator
validate_file_type(f) ==
    IF f.filename = Nothing THEN FALSE \* .lower() on None raises: return False
    ELSE IF ~EndsWith(LowerSeq(f.filename[1]), <<".", "p", "d", "f">>) THEN FALSE
    ELSE IF f.content_type \notin {"application/pdf"} THEN FALSE
    ELSE TRUE

validate_file_size(f) ==
    IF f.size # Nothing /\ f.size[1] # 0
    THEN f.size[1] <= max_file_size_mb * 1024 * 1024
    ELSE TRUE

validate_file_content(file_content) ==
    StartsWith(SubSeq(file_content.head, 1,
                      IF Len(file_content.head) < 10
                      THEN Len(file_content.head) ELSE 10),
               <<"%", "P", "D", "F">>)

HTTPException(code, detail) ==
    [type |-> "HTTPException", status_code |-> code, detail |-> detail]
Exception(type, message) == [type |-> type, message |-> message]

\* str(e)
Str(e) ==
    IF e.type = "HTTPException"
    THEN ToString(e.status_code) \o ": " \o e.detail
    ELSE e.message

\* FileValidationService: the exception raised, or Nothing
validate_upload(f) ==
    IF f = Nothing THEN Some(HTTPException(400, "No file uploaded"))
    ELSE IF ~validate_file_type(f[1])
    THEN Some(HTTPException(400, "Invalid file type. Only PDF files are allowed."))
    ELSE IF ~validate_file_size(f[1])
    THEN Some(HTTPException(413, "File too large. Maximum size is "
                                  \o ToString(max_file_size_mb) \o "MB."))
    ELSE Nothing

\* mutant: the magic-number check is skipped
validate_content_Skipped(file_content) == Nothing

validate_content(file_content) ==
    IF ~validate_file_content(file_content)
    THEN Some(HTTPException(400, "Invalid PDF file content."))
    ELSE Nothing

\* the PDF collaborators on the documents of Uploads
extract_text(file_content) ==
    CASE file_content.doc = "pdfA" -> [status |-> "ok", value |-> "docA"]
      [] file_content.doc = "pdfB" -> [status |-> "ok", value |-> "docB"]
      [] OTHER -> [status |-> "error",
                   error |-> Exception("Exception",
                                       "Failed to extract text from PDF: broken")]

convert_to_images(file_content) ==
    CASE file_content.doc = "pdfA" ->
           [status |-> "ok", value |-> <<"imgA", "imgA", "imgB">>]
      [] file_content.doc = "pdfB" -> [status |-> "ok", value |-> <<"imgB">>]
      [] OTHER -> [status |-> "error",
                   error |-> Exception("Exception",
                                       "Failed to convert PDF to images: broken")]

\* mutant: only HTTPException is caught, anything else reaches the caller
ExceptHandler_HTTPOnly(e) ==
    /\ raised' = Some(e)
    /\ IF e.type = "HTTPException"
       THEN /\ response' = Some([success |-> FALSE, data |-> None,
                                  error |-> Str(e),
                                  processing_time |-> Some(Len(steps'))])
            /\ stage' = "returned"
       ELSE response' = Nothing /\ stage' = "propagated"

\* except Exception as e: processing_time = time.time() - start_time;
\* return ParsedResponse(success=False, error=str(e), processing_time=...).
\* The clock is read in steps: the elapsed time is the number of steps the
\* call has begun since start_time was taken.
ExceptHandler(e) ==
    /\ raised' = Some(e)
    /\ response' = Some([success |-> FALSE, data |-> None, error |-> Str(e),
                         processing_time |-> Some(Len(steps'))])
    /\ stage' = "returned"

OrchInit ==
    /\ file \in Uploads
    /\ use_vision \in BOOLEAN
    /\ stage = "validate_upload"
    /\ steps = <<>>
    /\ raised = Nothing
    /\ response = Nothing
    /\ cur = 1
    /\ other = Nothing
    /\ provider = "any"
    /\ raw_content = <<>>
    /\ rpc = "idle"
    /\ recovered = Pending
    /\ applied = Nothing
    /\ llm_provider = None
    /\ llm_service = "BaseLLMService"
    /\ pdf_processor = "ImageExtractor"
    /\ http = Nothing
    /\ projects = <<>>
    /\ categories = <<>>
    /\ bank_accounts = <<>>
    /\ statement_files = <<>>
    /\ next_id = 1
    /\ crud_result = Nothing
    /\ mode = None
    /\ pc = "idle"
    /\ text_content = None
    /\ base64_images = <<>>
    /\ idx = 0
    /\ seen_hashes = {}
    /\ merged = Nothing
    /\ attempts = 0
    /\ calls = <<>>
    /\ chunks = <<>>
    /\ prev = Nothing
    /\ normalizer_input = Nothing
    /\ result = Pending

\* await self.file_validator.validate_upload(file)
ValidateUpload ==
    /\ stage = "validate_upload"
    /\ steps' = Append(steps, "validate_upload")
    /\ LET e == validate_upload(file)
       IN IF e = Nothing
          THEN stage' = "read" /\ UNCHANGED <<raised, response>>
          ELSE ExceptHandler(e[1])
    /\ UNCHANGED <<file, use_vision>>
    /\ UNCHANGED <<engine, sched, rec, route, store>>

\* file_content = BytesIO(await file.read())
ReadFile ==
    /\ stage = "read"
    /\ steps' = Append(steps, "read")
    /\ stage' = "validate_content"
    /\ UNCHANGED <<file, use_vision, raised, response>>
    /\ UNCHANGED <<engine, sched, rec, route, store>>

\* await self.file_validator.validate_content(file_content)
ValidateContent ==
    /\ stage = "validate_content"
    /\ steps' = Append(steps, "validate_content")
    /\ LET e == validate_content(file[1].content)
       IN IF e = Nothing
          THEN stage' = "extract" /\ UNCHANGED <<raised, response>>
          ELSE ExceptHandler(e[1])
    /\ UNCHANGED <<file, use_vision>>
    /\ UNCHANGED <<engine, sched, rec, route, store>>

\* convert_to_images, then the call of parse_image_statement
_parse_with_vision ==
    /\ stage = "extract" /\ use_vision
    /\ steps' = Append(steps, "extract")
    /\ LET r == IF pdf_processor = "TextExtractor"
                THEN [status |-> "error",
                      error |-> Exception("NotImplementedError",
                          "Text extractor doesn't support image conversion")]
                ELSE convert_to_images(file[1].content)
       IN IF r.status = "ok"
          THEN /\ mode' = "image"
               /\ base64_images' = r.value
               /\ pc' = "start"
               /\ stage' = "engine"
               /\ UNCHANGED <<raised, response>>
          ELSE /\ ExceptHandler(r.error)
               /\ UNCHANGED <<mode, base64_images, pc>>
    /\ UNCHANGED <<file, use_vision, text_content, idx, seen_hashes, merged,
                   attempts, calls, chunks, prev, normalizer_input, result>>
    /\ UNCHANGED <<sched, rec, route, store>>

\* extract_text, then the call of parse_text_statement
_parse_with_text ==
    /\ stage = "extract" /\ ~use_vision
    /\ steps' = Append(steps, "extract")
    /\ LET r == extract_text(file[1].content)
       IN IF r.status = "ok"
          THEN /\ mode' = "text"
               /\ text_content' = r.value
               /\ pc' = "start"
               /\ stage' = "engine"
               /\ UNCHANGED <<raised, response>>
          ELSE /\ ExceptHandler(r.error)
               /\ UNCHANGED <<mode, text_content, pc>>
    /\ UNCHANGED <<file, use_vision, base64_images, idx, seen_hashes, merged,
                   attempts, calls, chunks, prev, normalizer_input, result>>
    /\ UNCHANGED <<sched, rec, route, store>>

\* mutant: the success response is built without the elapsed time
ReturnResponse_NoProcessingTime ==
    /\ stage = "engine"
    /\ pc \in {"done", "failed"}
    /\ UNCHANGED <<file, use_vision, steps>>
    /\ IF result.status = "ok"
       THEN /\ response' = Some([success |-> TRUE, data |-> result.statement,
                                  error |-> None,
                                  processing_time |-> Nothing])
            /\ stage' = "returned"
            /\ UNCHANGED raised
       ELSE ExceptHandler(Exception(result.error, result.error))
    /\ UNCHANGED <<engine, sched, rec, route, store>>

\* the engine returned a statement, or its exception reaches the except clause
ReturnResponse ==
    /\ stage = "engine"
    /\ pc \in {"done", "failed"}
    /\ UNCHANGED <<file, use_vision, steps>>
    /\ IF result.status = "ok"
       THEN /\ response' = Some([success |-> TRUE, data |-> result.statement,
                                  error |-> None,
                                  processing_time |-> Some(Len(steps'))])
            /\ stage' = "returned"
            /\ UNCHANGED raised
       ELSE ExceptHandler(Exception(result.error, result.error))
    /\ UNCHANGED <<engine, sched, rec, route, store>>

OrchSpec ==
    OrchInit /\ [][\/ ValidateUpload
                   \/ ReadFile
                   \/ ValidateContent
                   \/ _parse_with_vision
                   \/ _parse_with_text
                   \/ ReturnResponse
                   \/ TextFirstCall
                   \/ TextFirstReply
                   \/ TextFollowupCall
                   \/ TextFollowupReply
                   \/ TextFinish
                   \/ ImageBegin
                   \/ ImageSkip
                   \/ ImageCall
                   \/ ImageReply
                   \/ ImageFinish
                   \/ ProviderRaises]_vars

AllSteps == <<"validate_upload", "read", "validate_content", "extract">>

(* ------------------------- orchestrator claims ------------------------ *)
\* C14: parse_statement never raises to its caller.  No exception leaves the
\* try block: whenever validation, extraction, a provider call or the
\* normalization raised, the call has returned a response with success false,
\* the exception's message as error and no data; a response reports success
\* exactly when nothing was raised, and then carries the engine's statement.
C14_ParseStatementNeverRaises ==
    /\ stage # "propagated"
    /\ raised # Nothing =>
         /\ stage = "returned"
         /\ response = Some([success |-> FALSE, data |-> None,
                             error |-> Str(raised[1]),
                             processing_time |-> Some(Len(steps))])
    /\ stage = "returned" =>
         /\ response # Nothing
         /\ response[1].success <=> raised = Nothing
         /\ response[1].success =>
              /\ result.status = "ok"
              /\ response[1].data = result.statement
         /\ result.status = "error" => raised # Nothing
         /\ validate_upload(file) # Nothing => raised # Nothing

C14_Witness ==
    /\ stage = "returned"
    /\ raised = Some(Exception("KeyError", "KeyError"))
    /\ Len(chunks) >= 1
    /\ response = Some([success |-> FALSE, data |-> None, error |-> "KeyError",
                        processing_time |-> Some(4)])

\* C15: the steps of one parse_statement call begin in the order
\* validate_upload, read, validate_content, extraction, and the engine (hence
\* every provider call) starts only after all four; when the upload or its
\* content is invalid, extraction is never begun, no provider call is issued
\* and the response, once returned, has success false.
C15_ValidationBeforeExtractionAndCalls ==
    /\ \E k \in 0..Len(AllSteps) : steps = SubSeq(AllSteps, 1, k)
    /\ (calls # <<>> \/ pc # "idle") => steps = AllSteps
    /\ (validate_upload(file) # Nothing
          \/ ~validate_file_content(file[1].content)) =>
         /\ Len(steps) < Len(AllSteps)
         /\ pc = "idle"
         /\ calls = <<>>
         /\ stage = "returned" => response[1].success = FALSE

C15_Witness ==
    /\ stage = "returned"
    /\ validate_upload(file) = Nothing
    /\ ~validate_file_content(file[1].content)
    /\ steps = <<"validate_upload", "read", "validate_content">>
    /\ calls = <<>>
    /\ response = Some([success |-> FALSE, data |-> None,
                        error |-> "400: Invalid PDF file content.",
                        processing_time |-> Some(3)])

\* C16: a provider call that raised ends the job at once.  The failing call
\* is the last call the job ever issued (every earlier call returned a chunk,
\* none follows it), the job is in its failed state whatever was merged
\* before, and the response, once returned, has success false and no data.
C16_FailedCallAbortsRequest ==
    result = [status |-> "error", error |-> "ProviderError"] =>
      /\ pc = "failed"
      /\ Len(calls) = Len(chunks) + 1
      /\ stage \in {"engine", "returned"}
      /\ stage = "returned" =>
           response = Some([success |-> FALSE, data |-> None,
                            error |-> "ProviderError",
                            processing_time |-> Some(Len(steps))])

C16_Witness ==
    /\ stage = "returned"
    /\ mode = "image"
    /\ result = [status |-> "error", error |-> "ProviderError"]
    /\ Len(chunks) = 1
    /\ merged # Nothing
    /\ TxnsOf(merged[1]) = <<T1, T3>>
    /\ response[1].success = FALSE
    /\ response[1].data = None

(* ================= two jobs on one event loop (asyncio) ================= *)
\* The locals of parse_text_statement / _paginate_and_collect /
\* parse_image_statement live in the frame of the job's coroutine.  The
\* engine variables are the frame of the running coroutine; other is the
\* frame of the suspended one.
Frame(m, p, t, imgs, i, seen, acc, n, cs, chs, pv, ni, res) ==
    [mode |-> m, pc |-> p, text_content |-> t, base64_images |-> imgs,
     idx |-> i, seen_hashes |-> seen, merged |-> acc, attempts |-> n,
     calls |-> cs, chunks |-> chs, prev |-> pv, normalizer_input |-> ni,
     result |-> res]

CurrentFrame ==
    Frame(mode, pc, text_content, base64_images, idx, seen_hashes, merged,
          attempts, calls, chunks, prev, normalizer_input, result)

\* a job before its first step
NewJob(m) ==
    IF m = "text"
    THEN Frame("text", "start", "docA", <<>>, 0, {}, Nothing, 0, <<>>, <<>>,
               Nothing, Nothing, Pending)
    ELSE Frame("image", "start", None, <<"imgA", "imgA", "imgB">>, 0, {},
               Nothing, 0, <<>>, <<>>, Nothing, Nothing, Pending)

ConcInit ==
    /\ \E m1 \in {"text", "image"} :
         LET f == NewJob(m1)
         IN /\ mode = f.mode
            /\ pc = f.pc
            /\ text_content = f.text_content
            /\ base64_images = f.base64_images
            /\ idx = f.idx
            /\ seen_hashes = f.seen_hashes
            /\ merged = f.merged
            /\ attempts = f.attempts
            /\ calls = f.calls
            /\ chunks = f.chunks
            /\ prev = f.prev
            /\ normalizer_input = f.normalizer_input
            /\ result = f.result
    /\ \E m2 \in {"text", "image"} : other = NewJob(m2)
    /\ cur = 1
    /\ provider = "two jobs"
    /\ raw_content = <<>>
    /\ rpc = "idle"
    /\ recovered = Pending
    /\ applied = Nothing
    /\ llm_provider = None
    /\ llm_service = "BaseLLMService"
    /\ pdf_processor = "ImageExtractor"
    /\ http = Nothing
    /\ projects = <<>>
    /\ categories = <<>>
    /\ bank_accounts = <<>>
    /\ statement_files = <<>>
    /\ next_id = 1
    /\ crud_result = Nothing
    /\ file = Nothing
    /\ use_vision = (mode = "image")
    /\ stage = "direct"
    /\ steps = <<>>
    /\ raised = Nothing
    /\ response = Nothing

\* mutant: seen_hashes is kept on the adapter instance, which both jobs use,
\* instead of in the coroutine's frame
Switch_SharedSeenHashes ==
    /\ pc \in {"await_first", "await_next", "await_img", "done", "failed"}
    /\ other.pc \notin {"done", "failed"}
    /\ cur' = 3 - cur
    /\ other' = CurrentFrame
    /\ mode' = other.mode
    /\ pc' = other.pc
    /\ text_content' = other.text_content
    /\ base64_images' = other.base64_images
    /\ idx' = other.idx
    /\ merged' = other.merged
    /\ attempts' = other.attempts
    /\ calls' = other.calls
    /\ chunks' = other.chunks
    /\ prev' = other.prev
    /\ normalizer_input' = other.normalizer_input
    /\ result' = other.result
    /\ UNCHANGED <<seen_hashes, orch, provider, rec, route, store>>

\* The running job is suspended at an awaited provider call (or has ended)
\* and the event loop resumes the other job with that job's own frame.
Switch ==
    /\ pc \in {"await_first", "await_next", "await_img", "done", "failed"}
    /\ other.pc \notin {"done", "failed"}
    /\ cur' = 3 - cur
    /\ other' = CurrentFrame
    /\ mode' = other.mode
    /\ pc' = other.pc
    /\ text_content' = other.text_content
    /\ base64_images' = other.base64_images
    /\ idx' = other.idx
    /\ seen_hashes' = other.seen_hashes
    /\ merged' = other.merged
    /\ attempts' = other.attempts
    /\ calls' = other.calls
    /\ chunks' = other.chunks
    /\ prev' = other.prev
    /\ normalizer_input' = other.normalizer_input
    /\ result' = other.result
    /\ UNCHANGED <<orch, provider, rec, route, store>>

ConcSpec ==
    ConcInit /\ [][\/ Switch
                   \/ TextFirstCall
                   \/ TextFirstReply
                   \/ TextFollowupCall
                   \/ TextFollowupReply
                   \/ TextFinish
                   \/ ImageBegin
                   \/ ImageSkip
                   \/ ImageCall
                   \/ ImageReply
                   \/ ImageFinish
                   \/ ProviderRaises]_vars

\* What a job run alone has in its frame after the provider answered its
\* calls with the chunks chs: the fold of the chunks, one follow-up counted
\* per merge, the digests of the images the loop has passed, and, at the
\* end, the Statement converted from the fold.
AsWhenAlone(f) ==
    LET fold == IF f.chunks = <<>> THEN Skeleton
                ELSE FoldChunks(f.chunks, Len(f.chunks))
        passed == IF f.pc \in {"await_img", "failed"} THEN f.idx + 1 ELSE f.idx
    IN
    /\ f.merged = IF f.chunks = <<>> THEN Nothing ELSE Some(fold)
    /\ f.seen_hashes = IF f.mode = "image" /\ f.pc # "start"
                       THEN {Sha1Hex(f.base64_images[i]) : i \in 1..passed}
                       ELSE {}
    /\ f.attempts = IF f.mode = "text" /\ f.chunks # <<>>
                    THEN Len(f.chunks) - 1 ELSE 0
    /\ f.mode = "image" => Len(f.calls) = Cardinality(f.seen_hashes)
    /\ f.mode = "text" /\ f.pc \in {"paginate", "done"} =>
         Len(f.calls) = Len(f.chunks)
    /\ f.pc = "done" =>
         /\ f.result = _convert_to_bank_statement(
                           Pop(Pop(fold, "has_more"), "next_page_hint"))
         /\ f.mode = "image" =>
              f.seen_hashes = {Sha1Hex(f.base64_images[i]) :
                                 i \in 1..Len(f.base64_images)}
         /\ f.mode = "text" =>
              ~ContinueCond(f.merged[1], f.attempts)

(* -------------------------- concurrency claim ------------------------- *)
\* C17: two jobs interleaved at their provider calls share no merge state.
\* In every reachable state the accumulator, the seen-image set and the
\* follow-up counter of each job are what the job has when run alone with
\* the chunks it received, and a finished job has returned what it returns
\* when run alone with those chunks.
C17_JobsShareNoMergeState ==
    /\ AsWhenAlone(CurrentFrame)
    /\ AsWhenAlone(other)

\* both jobs are suspended at their second page call, each with one page
\* merged, and the pages differ
C17_Witness ==
    /\ mode = "image" /\ other.mode = "image"
    /\ pc = "await_img" /\ other.pc = "await_img"
    /\ Len(chunks) = 1 /\ Len(other.chunks) = 1
    /\ merged # other.merged
    /\ seen_hashes = other.seen_hashes
    /\ Cardinality(seen_hashes) = 2

(* ==================== JSON recovery (base.py 141-257) =================== *)
\* A text is a sequence of one-character strings.
\* \s
IsSpace(c) == c \in {" ", "\n", "\t", "\r"}
\* \d
IsDigit(c) == c \in {"0", "1", "2", "3", "4", "5", "6", "7", "8", "9"}
\* \w
IsWord(c) ==
    \/ IsDigit(c)
    \/ c \in {"a", "b", "c", "d", "e", "f", "g", "h", "i", "j", "k", "l", "m", "n",
              "o", "p", "q", "r", "s", "t", "u", "v", "w", "x", "y", "z", "_",
              "A", "B", "C", "D", "E", "F", "G", "H", "I", "J", "K", "L", "M", "N",
              "O", "P", "Q", "R", "S", "T", "U", "V", "W", "X", "Y", "Z"}

\* the character at position i (1-based), "" outside the text
At(s, i) == IF i >= 1 /\ i <= Len(s) THEN s[i] ELSE ""
\* s[i:i+len(w)] == w
HasAt(s, i, w) == i >= 1 /\ i + Len(w) - 1 <= Len(s) /\ SubSeq(s, i, i + Len(w) - 1) = w

RECURSIVE SkipSpace(_, _)
\* the first position from i on that holds no whitespace (Len(s) + 1 at the end)
SkipSpace(s, i) == IF IsSpace(At(s, i)) THEN SkipSpace(s, i + 1) ELSE i

\* str.strip(): the text from its first to its last non-whitespace character
Strip(s) ==
    LET ink == {i \in 1..Len(s) : ~IsSpace(s[i])}
    IN IF ink = {} THEN <<>>
       ELSE SubSeq(s, CHOOSE i \in ink : \A j \in ink : i <= j,
                   CHOOSE i \in ink : \A j \in ink : j <= i)

\* the position of the last "\n" among positions i..j-1, 0 when there is none
LastNewline(s, i, j) ==
    LET nls == {k \in i..(j - 1) : s[k] = "\n"}
    IN IF nls = {} THEN 0 ELSE CHOOSE k \in nls : \A m \in nls : m <= k

\* the backquote character (a TLA+ string cannot hold it)
Backquote == "<backquote>"
Fence == <<Backquote, Backquote, Backquote>>
\* "json" under re.IGNORECASE
IsJsonTag(s, i) ==
    /\ At(s, i) \in {"j", "J"} /\ At(s, i + 1) \in {"s", "S"}
    /\ At(s, i + 2) \in {"o", "O"} /\ At(s, i + 3) \in {"n", "N"}

\* re.sub(r"^\s*json\s*\n", "", content, flags=re.IGNORECASE): the match is
\* leading whitespace, the tag, and the whitespace after it up to its last
\* newline
DropJsonTag(content) ==
    LET p == SkipSpace(content, 1)
        q == SkipSpace(content, p + 4)
        nl == IF IsJsonTag(content, p) THEN LastNewline(content, p + 4, q) ELSE 0
    IN IF nl = 0 THEN content ELSE SubSeq(content, nl + 1, Len(content))

_strip_code_fences(content) ==
    LET c1 == Strip(content)
        c2 == IF StartsWith(c1, Fence) /\ EndsWith(c1, Fence)
              THEN SubSeq(c1, 4, Len(c1) - 3)      \* content[3:-3]
              ELSE c1
    IN Strip(DropJsonTag(c2))

\* where re.sub's pattern ,\s*([}\]]) matches at i: the position of the
\* closing bracket, 0 when there is no match at i
TrailingCommaAt(s, i) ==
    LET j == SkipSpace(s, i + 1)
    IN IF At(s, i) = "," /\ At(s, j) \in {"}", "]"} THEN j ELSE 0

RECURSIVE SubTrailingCommas(_, _)
\* one re.sub pass from position i: every match is replaced by its bracket
SubTrailingCommas(s, i) ==
    IF i > Len(s) THEN <<>>
    ELSE LET j == TrailingCommaAt(s, i)
         IN IF j > 0 THEN <<s[j]>> \o SubTrailingCommas(s, j + 1)
            ELSE <<s[i]>> \o SubTrailingCommas(s, i + 1)

RECURSIVE _remove_trailing_commas(_)
\* while prev != content: content = re.sub(...)
_remove_trailing_commas(content) ==
    LET nxt == SubTrailingCommas(content, 1)
    IN IF nxt = content THEN content ELSE _remove_trailing_commas(nxt)

\* (?<![\w"']) and (?![\w"']) at position i: the character there is neither
\* a word character nor a quote (true outside the text)
NotWordOrQuote(s, i) == ~(IsWord(At(s, i)) \/ At(s, i) \in {"\"", "'"})

RECURSIVE GroupEnds(_, _)
\* the positions after one or more groups (?:,\d{3})+ that start at p
GroupEnds(s, p) ==
    IF /\ At(s, p) = "," /\ IsDigit(At(s, p + 1)) /\ IsDigit(At(s, p + 2))
       /\ IsDigit(At(s, p + 3))
    THEN {p + 4} \cup GroupEnds(s, p + 4)
    ELSE {}

RECURSIVE DigitRunEnd(_, _)
DigitRunEnd(s, i) == IF IsDigit(At(s, i)) THEN DigitRunEnd(s, i + 1) ELSE i

\* the positions after \d{1,3}(?:,\d{3})+(?:\.\d+)? that starts at i; the
\* optional (?:\.\d+)? that starts at g ends at g itself, or after "." and
\* one or more of the digits that follow it
NumberEnds(s, i) ==
    UNION {UNION {{g} \cup (IF At(s, g) = "."
                            THEN (g + 2)..DigitRunEnd(s, g + 1) ELSE {}) :
                    g \in GroupEnds(s, i + n)} :
             n \in {k \in 1..3 : \A d \in 0..(k - 1) : IsDigit(At(s, i + d))}}

\* The end of the pattern's match at i (0: no match).  The ways the pattern
\* can match at i are prefixes of one another and the greedy quantifiers try
\* the longer first, so the match is the longest one the lookahead accepts.
NumberMatchEnd(s, i) ==
    LET ends == {e \in NumberEnds(s, i) : NotWordOrQuote(s, e)}
    IN IF NotWordOrQuote(s, i - 1) /\ ends # {}
       THEN CHOOSE e \in ends : \A f \in ends : f <= e
       ELSE 0

RECURSIVE SubNumbers(_, _)
\* pattern.sub(repl, content) from position i; repl is
\* number.replace(",", "")
SubNumbers(s, i) ==
    IF i > Len(s) THEN <<>>
    ELSE LET e == NumberMatchEnd(s, i)
         IN IF e > 0
            THEN SelectSeq(SubSeq(s, i, e - 1), LAMBDA c : c # ",")
                   \o SubNumbers(s, e)
            ELSE <<s[i]>> \o SubNumbers(s, i + 1)

_normalize_number_separators(content) == SubNumbers(content, 1)

\* the start of the body of a fence that opens at i, 0 when none opens there:
\* fence, \s*json\s*\n (withTag) or fence, \s*\n
FenceBodyStart(s, i, withTag) ==
    IF ~HasAt(s, i, Fence) THEN 0
    ELSE LET p == SkipSpace(s, i + 3)
             from == IF withTag THEN p + 4 ELSE i + 3
             q == SkipSpace(s, from)
             nl == IF withTag /\ ~IsJsonTag(s, p) THEN 0
                   ELSE LastNewline(s, from, q)
         IN IF nl = 0 THEN 0 ELSE nl + 1

\* re.search: the leftmost opening fence that has a closing fence after its
\* body; group(1) is lazy and ends at the first closing fence
FenceSearch(s, withTag) ==
    LET closing(b) == {k \in b..Len(s) : HasAt(s, k, Fence)}
        opens == {i \in 1..Len(s) :
                    /\ FenceBodyStart(s, i, withTag) > 0
                    /\ closing(FenceBodyStart(s, i, withTag)) # {}}
    IN IF opens = {} THEN Nothing
       ELSE LET i == CHOOSE o \in opens : \A x \in opens : o <= x
                b == FenceBodyStart(s, i, withTag)
                k == CHOOSE c \in closing(b) : \A x \in closing(b) : c <= x
            IN Some(Strip(SubSeq(s, b, k - 1)))

\* Nothing is Python's None
_extract_json_from_fenced_block(content) ==
    IF FenceSearch(content, TRUE) # Nothing THEN FenceSearch(content, TRUE)
    ELSE FenceSearch(content, FALSE)

RECURSIVE ScanObject(_, _, _, _, _, _)
\* the for loop of _extract_first_json_object at index idx = k
ScanObject(s, start, k, depth, in_string, escape) ==
    IF k > Len(s) THEN Nothing
    ELSE LET ch == s[k]
         IN IF in_string
            THEN IF escape THEN ScanObject(s, start, k + 1, depth, TRUE, FALSE)
                 ELSE IF ch = "\\"
                 THEN ScanObject(s, start, k + 1, depth, TRUE, TRUE)
                 ELSE IF ch = "\""
                 THEN ScanObject(s, start, k + 1, depth, FALSE, FALSE)
                 ELSE ScanObject(s, start, k + 1, depth, TRUE, FALSE)
            ELSE IF ch = "\""
                 THEN ScanObject(s, start, k + 1, depth, TRUE, escape)
                 ELSE IF ch = "{"
                 THEN ScanObject(s, start, k + 1, depth + 1, FALSE, escape)
                 ELSE IF ch = "}"
                 THEN IF depth - 1 = 0 THEN Some(SubSeq(s, start, k))
                      ELSE ScanObject(s, start, k + 1, depth - 1, FALSE, escape)
                 ELSE ScanObject(s, start, k + 1, depth, FALSE, escape)

\* mutant: the substring is taken from the beginning of the text
_extract_first_json_object_FromTextStart(content) ==
    LET braces == {i \in 1..Len(content) : content[i] = "{"}
    IN IF braces = {} THEN Nothing
       ELSE ScanObject(content, 1,
                       CHOOSE i \in braces : \A j \in braces : i <= j,
                       0, FALSE, FALSE)
_extract_first_json_object(content) ==
    LET braces == {i \in 1..Len(content) : content[i] = "{"}
    IN IF braces = {} THEN Nothing
       ELSE ScanObject(content, CHOOSE i \in braces : \A j \in braces : i <= j,
                       CHOOSE i \in braces : \A j \in braces : i <= j,
                       0, FALSE, FALSE)

(* ------------------------------ json.loads ---------------------------- *)
\* The standard library's parser on documents made of objects, arrays,
\* strings (escapes \" \\ \/ \n \t), numbers without exponent, true, false
\* and null.  A value is [type, v]: a string holds its characters, a number
\* <<below zero, integer part, fraction digits without trailing zeros>>, an
\* object a function from keys to values (a repeated key keeps its last
\* value), an array a sequence of values.
\* the outcome of parsing one construct: the value and the position after it
Parsed(type, v, pos) == [ok |-> TRUE, val |-> [type |-> type, v |-> v], pos |-> pos]
NoParse == [ok |-> FALSE]

RECURSIVE IntVal(_)
\* the number the digits ds write
IntVal(ds) ==
    LET c == ds[Len(ds)]
        d == CASE c = "0" -> 0 [] c = "1" -> 1 [] c = "2" -> 2 [] c = "3" -> 3
               [] c = "4" -> 4 [] c = "5" -> 5 [] c = "6" -> 6 [] c = "7" -> 7
               [] c = "8" -> 8 [] c = "9" -> 9
    IN IF ds = <<>> THEN 0
       ELSE 10 * IntVal(SubSeq(ds, 1, Len(ds) - 1)) + d

RECURSIVE DropTrailingZeros(_)
DropTrailingZeros(ds) ==
    IF ds # <<>> /\ ds[Len(ds)] = "0"
    THEN DropTrailingZeros(SubSeq(ds, 1, Len(ds) - 1)) ELSE ds

RECURSIVE ScanString(_, _, _)
\* the characters of a string from position j on, up to the closing quote
ScanString(s, j, acc) ==
    IF j > Len(s) \/ s[j] \in {"\n", "\t", "\r"} THEN NoParse
    ELSE IF s[j] = "\"" THEN Parsed("str", acc, j + 1)
    ELSE IF s[j] = "\\"
    THEN IF At(s, j + 1) \in {"\"", "\\", "/", "n", "t"}
         THEN ScanString(s, j + 2,
                         Append(acc, CASE s[j + 1] = "n" -> "\n"
                                       [] s[j + 1] = "t" -> "\t"
                                       [] OTHER -> s[j + 1]))
         ELSE NoParse
    ELSE ScanString(s, j + 1, Append(acc, s[j]))

\* -?(0|[1-9]\d*)(\.\d+)? at i.  The sign is kept apart from the digits, so
\* that -0.5 and 0.5 differ; -0 and -0.0 equal 0 and 0.0, as in Python.
ParseNumber(s, i) ==
    LET neg == At(s, i) = "-"
        b == IF neg THEN i + 1 ELSE i
        e == IF At(s, b) = "0" THEN b + 1 ELSE DigitRunEnd(s, b)
        f == IF At(s, e) = "." THEN DigitRunEnd(s, e + 1) ELSE e
        hasFrac == f > e + 1
        n == IntVal(SubSeq(s, b, e - 1))
        frac == IF hasFrac THEN DropTrailingZeros(SubSeq(s, e + 1, f - 1))
                ELSE <<>>
    IN IF e = b THEN NoParse
       ELSE Parsed("num", <<neg /\ (n # 0 \/ frac # <<>>), n, frac>>,
                   IF hasFrac THEN f ELSE e)

RECURSIVE ParseValue(_, _)
RECURSIVE ParseMembers(_, _, _)
RECURSIVE ParseElements(_, _, _)

\* the members of an object from the key at position j on
ParseMembers(s, j, acc) ==
    IF At(s, j) # "\"" THEN NoParse
    ELSE LET key == ScanString(s, j + 1, <<>>)
         IN IF ~key.ok THEN NoParse
            ELSE LET c == SkipSpace(s, key.pos)
                 IN IF At(s, c) # ":" THEN NoParse
                    ELSE LET val == ParseValue(s, SkipSpace(s, c + 1))
                         IN IF ~val.ok THEN NoParse
                            ELSE LET m == SkipSpace(s, val.pos)
                                     obj == Put(acc, key.val.v, val.val)
                                 IN IF At(s, m) = "}" THEN Parsed("obj", obj, m + 1)
                                    ELSE IF At(s, m) = ","
                                    THEN ParseMembers(s, SkipSpace(s, m + 1), obj)
                                    ELSE NoParse

\* the elements of an array from the value at position j on
ParseElements(s, j, acc) ==
    LET val == ParseValue(s, j)
    IN IF ~val.ok THEN NoParse
       ELSE LET m == SkipSpace(s, val.pos)
                arr == Append(acc, val.val)
            IN IF At(s, m) = "]" THEN Parsed("arr", arr, m + 1)
               ELSE IF At(s, m) = ","
               THEN ParseElements(s, SkipSpace(s, m + 1), arr)
               ELSE NoParse

ParseValue(s, i) ==
    LET c == At(s, i)
    IN IF c = "\"" THEN ScanString(s, i + 1, <<>>)
       ELSE IF c = "{"
       THEN LET j == SkipSpace(s, i + 1)
            IN IF At(s, j) = "}" THEN Parsed("obj", <<>>, j + 1)
               ELSE ParseMembers(s, j, <<>>)
       ELSE IF c = "["
       THEN LET j == SkipSpace(s, i + 1)
            IN IF At(s, j) = "]" THEN Parsed("arr", <<>>, j + 1)
               ELSE ParseElements(s, j, <<>>)
       ELSE IF IsDigit(c) \/ c = "-" THEN ParseNumber(s, i)
       ELSE IF HasAt(s, i, <<"t", "r", "u", "e">>) THEN Parsed("lit", "true", i + 4)
       ELSE IF HasAt(s, i, <<"f", "a", "l", "s", "e">>)
       THEN Parsed("lit", "false", i + 5)
       ELSE IF HasAt(s, i, <<"n", "u", "l", "l">>) THEN Parsed("lit", "null", i + 4)
       ELSE NoParse

JSONDecodeError == [status |-> "error", error |-> "JSONDecodeError"]

\* json.loads(text): one value with whitespace around it and nothing else
json_loads(text) ==
    LET r == ParseValue(text, SkipSpace(text, 1))
    IN IF r.ok /\ SkipSpace(text, r.pos) > Len(text) THEN [status |-> "ok", value |-> r.val]
       ELSE JSONDecodeError

(* ----------------------------- input texts --------------------------- *)
\* values a model writes for a member of an object
ValuePool ==
    {\* 1
     <<"1">>,
     \* -0.5
     <<"-", "0", ".", "5">>,
     \* "x,}"
     <<"\"", "x", ",", "}", "\"">>,
     \* [1, 2 , ]
     <<"[", "1", ",", " ", "2", " ", ",", " ", "]">>,
     \* "paid 1,234 now"
     <<"\"", "p", "a", "i", "d", " ", "1", ",", "2", "3", "4", " ",
       "n", "o", "w", "\"">>,
     \* 1,234
     <<"1", ",", "2", "3", "4">>,
     \* [1,234]
     <<"[", "1", ",", "2", "3", "4", "]">>,
     \* 12,345.67
     <<"1", "2", ",", "3", "4", "5", ".", "6", "7">>,
     \* "1,234"
     <<"\"", "1", ",", "2", "3", "4", "\"">>,
     \* {"n": "}",}
     <<"{", "\"", "n", "\"", ":", " ", "\"", "}", "\"", ",", "}">>}

\* bodies of a response
CoreBodies ==
    {\* {"a": 1}
     <<"{", "\"", "a", "\"", ":", " ", "1", "}">>,
     \* {"a": 1,}
     <<"{", "\"", "a", "\"", ":", " ", "1", ",", "}">>,
     \* {"a": 1,234}
     <<"{", "\"", "a", "\"", ":", " ", "1", ",", "2", "3", "4", "}">>,
     \* not json
     <<"n", "o", "t", " ", "j", "s", "o", "n">>,
     \* {"a": x}
     <<"{", "\"", "a", "\"", ":", " ", "x", "}">>,
     \* {"a": "}"}
     <<"{", "\"", "a", "\"", ":", " ", "\"", "}", "\"", "}">>,
     \* {"a": "q\"}"}
     <<"{", "\"", "a", "\"", ":", " ", "\"", "q", "\\", "\"", "}",
       "\"", "}">>,
     \* {"a": 1
     <<"{", "\"", "a", "\"", ":", " ", "1">>,
     \* {"a": [1,234],}
     <<"{", "\"", "a", "\"", ":", " ", "[", "1", ",", "2", "3", "4",
       "]", ",", "}">>}

MaxMembers == 2

RECURSIVE MembersText(_, _)
\* "a": v1, "b": v2, ... for the values vs, the first one under key number k
MembersText(vs, k) ==
    IF vs = <<>> THEN <<>>
    ELSE <<"\"", <<"a", "b", "c", "d">>[k], "\"", ":", " ">> \o Head(vs)
         \o (IF Len(vs) > 1 THEN <<",", " ">> ELSE <<>>)
         \o MembersText(Tail(vs), k + 1)

\* an object with the values vs, with or without a comma after its last member
ObjectText(vs, trailing) ==
    <<"{">> \o MembersText(vs, 1) \o (IF trailing THEN <<",">> ELSE <<>>) \o <<"}">>

\* the responses of a provider: objects of up to MaxMembers members, and
\* bodies with what a model writes before and after them, bare or inside a
\* fenced block (with or without the json tag)
RawTexts ==
    LET prefixes == {<<>>,
                     <<"H", "e", "r", "e", ":", " ">>}
        suffixes == {<<>>,
                     <<" ", "{", "\"", "z", "\"", ":", " ", "2", "}">>,
                     <<"\n", "b", "y", "e">>}
        wrappers == {<<<<>>,
                      <<>>>>,
                    <<<<Backquote, Backquote, Backquote, "j", "s", "o", "n", "\n">>,
                      <<"\n", Backquote, Backquote, Backquote>>>>,
                    <<<<Backquote, Backquote, Backquote, "\n">>,
                      <<"\n", Backquote, Backquote, Backquote>>>>}
    IN {ObjectText(vs, tr) : vs \in SeqsUpTo(ValuePool, MaxMembers) \ {<<>>},
                             tr \in BOOLEAN}
       \cup {pre \o w[1] \o b \o w[2] \o suf :
               pre \in prefixes, w \in wrappers, b \in CoreBodies,
               suf \in suffixes}

(* ------------------------- _parse_response_json ----------------------- *)
RECURSIVE FirstLoad(_)
\* try: return json.loads(t1) / except: try the next text; the last
\* json.loads is not guarded
FirstLoad(texts) ==
    IF texts = <<>> THEN JSONDecodeError
    ELSE IF json_loads(Head(texts)).status = "ok" THEN json_loads(Head(texts))
    ELSE FirstLoad(Tail(texts))

_parse_response_json(raw) ==
    LET cleaned == _strip_code_fences(raw)
        fenced == _extract_json_from_fenced_block(raw)
        obj == _extract_first_json_object(cleaned)
        sanitized_full == _remove_trailing_commas(cleaned)
    IN IF json_loads(raw).status = "ok" THEN json_loads(raw)
       ELSE IF json_loads(cleaned).status = "ok" THEN json_loads(cleaned)
       ELSE IF fenced # Nothing /\ fenced # Some(<<>>)               \* if fenced:
       THEN FirstLoad(<<fenced[1],
                        _normalize_number_separators(
                            _remove_trailing_commas(fenced[1]))>>)
       ELSE IF obj # Nothing                                         \* if obj:
       THEN FirstLoad(<<obj[1], _remove_trailing_commas(obj[1]),
                        _normalize_number_separators(
                            _remove_trailing_commas(obj[1]))>>)
       ELSE FirstLoad(<<sanitized_full,
                        _normalize_number_separators(sanitized_full)>>)

\* no statement is being parsed and no request is being served
Idle ==
    /\ mode = None
    /\ pc = "idle"
    /\ text_content = None
    /\ base64_images = <<>>
    /\ idx = 0
    /\ seen_hashes = {}
    /\ merged = Nothing
    /\ attempts = 0
    /\ calls = <<>>
    /\ chunks = <<>>
    /\ prev = Nothing
    /\ normalizer_input = Nothing
    /\ result = Pending
    /\ file = Nothing
    /\ use_vision = FALSE
    /\ stage = "direct"
    /\ steps = <<>>
    /\ raised = Nothing
    /\ response = Nothing
    /\ cur = 1
    /\ other = Nothing
    /\ provider = "any"

RecInit ==
    /\ raw_content \in RawTexts
    /\ rpc = "input"
    /\ recovered = Pending
    /\ applied = Nothing
    /\ llm_provider = None
    /\ llm_service = "BaseLLMService"
    /\ pdf_processor = "ImageExtractor"
    /\ http = Nothing
    /\ projects = <<>>
    /\ categories = <<>>
    /\ bank_accounts = <<>>
    /\ statement_files = <<>>
    /\ next_id = 1
    /\ crud_result = Nothing
    /\ Idle

\* _parse_response_json(raw_content) returns a value or raises
ParseResponseJson ==
    /\ rpc = "input"
    /\ recovered' = _parse_response_json(raw_content)
    /\ rpc' = IF recovered'.status = "ok" THEN "returned" ELSE "raised"
    /\ UNCHANGED <<raw_content, applied, engine, orch, sched, route, store>>

\* _remove_trailing_commas applied to the text
ApplyRemoveTrailingCommas ==
    /\ rpc = "input"
    /\ applied' = Some([fn |-> "_remove_trailing_commas",
                        out |-> _remove_trailing_commas(raw_content)])
    /\ rpc' = "applied"
    /\ UNCHANGED <<raw_content, recovered, engine, orch, sched, route, store>>

\* _normalize_number_separators applied to the text
ApplyNormalizeNumberSeparators ==
    /\ rpc = "input"
    /\ applied' = Some([fn |-> "_normalize_number_separators",
                        out |-> _normalize_number_separators(raw_content)])
    /\ rpc' = "applied"
    /\ UNCHANGED <<raw_content, recovered, engine, orch, sched, route, store>>

\* _extract_first_json_object applied to the text
ApplyExtractFirstJsonObject ==
    /\ rpc = "input"
    /\ applied' = Some([fn |-> "_extract_first_json_object",
                        out |-> _extract_first_json_object(raw_content)])
    /\ rpc' = "applied"
    /\ UNCHANGED <<raw_content, recovered, engine, orch, sched, route, store>>

RecSpec ==
    RecInit /\ [][\/ ParseResponseJson
                  \/ ApplyRemoveTrailingCommas
                  \/ ApplyNormalizeNumberSeparators
                  \/ ApplyExtractFirstJsonObject]_vars

(* --------------------------- recovery claims -------------------------- *)
\* C18: recovery tries its strategies in order, returns the value of the
\* first one that succeeds, and raises only when none of them (raw text,
\* fence-stripped text, fenced block, first balanced object, final fallback)
\* recovers a value.  (outcomes: what each strategy yields when tried on
\* its own, in the order of the code.)
C18_RaisesOnlyIfNoStrategyRecovers ==
    LET cleaned == _strip_code_fences(raw_content)
        fenced == _extract_json_from_fenced_block(raw_content)
        obj == _extract_first_json_object(cleaned)
        sanitized_full == _remove_trailing_commas(cleaned)
        outcomes ==
          <<json_loads(raw_content),
           json_loads(cleaned),
           IF fenced = Nothing \/ fenced = Some(<<>>) THEN JSONDecodeError
           ELSE FirstLoad(<<fenced[1],
                            _normalize_number_separators(
                                _remove_trailing_commas(fenced[1]))>>),
           IF obj = Nothing THEN JSONDecodeError
           ELSE FirstLoad(<<obj[1], _remove_trailing_commas(obj[1]),
                            _normalize_number_separators(
                                _remove_trailing_commas(obj[1]))>>),
           FirstLoad(<<sanitized_full,
                       _normalize_number_separators(sanitized_full)>>)>>
        good == {k \in 1..Len(outcomes) : outcomes[k].status = "ok"}
    IN /\ rpc = "raised" => good = {}
       /\ rpc = "returned" =>
            /\ good # {}
            /\ recovered.value =
                 outcomes[CHOOSE k \in good : \A m \in good : k <= m].value

RECURSIVE DeleteTrailingCommas(_, _, _, _)
\* the text from position i on without the commas that stand, outside
\* strings, before a closing bracket (whitespace between them is kept)
DeleteTrailingCommas(s, i, in_string, escape) ==
    IF i > Len(s) THEN <<>>
    ELSE IF in_string
    THEN <<s[i]>> \o DeleteTrailingCommas(s, i + 1,
                                          escape \/ s[i] # "\"",
                                          ~escape /\ s[i] = "\\")
    ELSE IF TrailingCommaAt(s, i) > 0
    THEN DeleteTrailingCommas(s, i + 1, FALSE, FALSE)
    ELSE <<s[i]>> \o DeleteTrailingCommas(s, i + 1, s[i] = "\"", FALSE)

\* C19: on a text that is a valid JSON document but for trailing commas
\* before } or ], _remove_trailing_commas returns a text that parses to the
\* same value as the text with just those commas deleted, strings included.
C19_TrailingCommaRepairKeepsValue ==
    LET expected == json_loads(DeleteTrailingCommas(raw_content, 1, FALSE, FALSE))
    IN (/\ applied # Nothing
        /\ applied[1].fn = "_remove_trailing_commas"
        /\ expected.status = "ok")
       => json_loads(applied[1].out) = expected

RECURSIVE StringLiterals(_, _, _, _)
\* the quoted strings of a text from position i on, in order, each with its
\* characters as written; lit is Nothing outside a string
StringLiterals(s, i, lit, escape) ==
    IF i > Len(s) THEN <<>>
    ELSE IF lit = Nothing
    THEN StringLiterals(s, i + 1, IF s[i] = "\"" THEN Some(<<>>) ELSE Nothing, FALSE)
    ELSE IF ~escape /\ s[i] = "\""
    THEN <<lit[1]>> \o StringLiterals(s, i + 1, Nothing, FALSE)
    ELSE StringLiterals(s, i + 1, Some(Append(lit[1], s[i])),
                        ~escape /\ s[i] = "\\")

\* C20: _normalize_number_separators leaves every quoted string as it was,
\* also one that holds a number with separators, and a document that was
\* valid before (array elements 1,234 written without spaces) keeps its
\* value.
C20_NumberRepairKeepsStringsAndElements ==
    (applied # Nothing /\ applied[1].fn = "_normalize_number_separators") =>
      /\ StringLiterals(applied[1].out, 1, Nothing, FALSE)
           = StringLiterals(raw_content, 1, Nothing, FALSE)
      /\ json_loads(raw_content).status = "ok" =>
           json_loads(applied[1].out) = json_loads(raw_content)

(* ============== _convert_to_bank_statement (base.py 259-284) ============ *)
\* Dicts handed to the normalizer: a full header and up to MaxTxns
\* transactions, each T1 without a balance, T1 with a balance of JSON null,
\* 0, 7, "0" or "7", or T3 (which has no amount key).
NormInputs ==
    LET balances == {[json |-> "null", v |-> 0], Num(0), Num(7), NumStr(0),
                     NumStr(7)}
        txns == {T1, T3} \cup {Put(T1, "balance", b) : b \in balances}
    IN {Put(Put(HeaderA, "closing_balance", Num(100)), "transactions", l) :
          l \in SeqsUpTo(txns, MaxTxns)}

NormInit ==
    /\ normalizer_input \in {Some(d) : d \in NormInputs}
    /\ pc = "convert"
    /\ result = Pending
    /\ mode = None
    /\ text_content = None
    /\ base64_images = <<>>
    /\ idx = 0
    /\ seen_hashes = {}
    /\ merged = Nothing
    /\ attempts = 0
    /\ calls = <<>>
    /\ chunks = <<>>
    /\ prev = Nothing
    /\ file = Nothing
    /\ use_vision = FALSE
    /\ stage = "direct"
    /\ steps = <<>>
    /\ raised = Nothing
    /\ response = Nothing
    /\ cur = 1
    /\ other = Nothing
    /\ provider = "any"
    /\ raw_content = <<>>
    /\ rpc = "idle"
    /\ recovered = Pending
    /\ applied = Nothing
    /\ llm_provider = None
    /\ llm_service = "BaseLLMService"
    /\ pdf_processor = "ImageExtractor"
    /\ http = Nothing
    /\ projects = <<>>
    /\ categories = <<>>
    /\ bank_accounts = <<>>
    /\ statement_files = <<>>
    /\ next_id = 1
    /\ crud_result = Nothing

\* return self._convert_to_bank_statement(merged)
Normalize ==
    /\ pc = "convert"
    /\ result' = _convert_to_bank_statement(normalizer_input[1])
    /\ pc' = "done"
    /\ UNCHANGED <<mode, text_content, base64_images, idx, seen_hashes, merged,
                   attempts, calls, chunks, prev, normalizer_input>>
    /\ UNCHANGED <<orch, sched, rec, route, store>>

NormSpec == NormInit /\ [][Normalize]_vars

(* --------------------------- normalizer claims ------------------------ *)
\* C21: a transaction's balance is absent in the Statement whenever the
\* recovered transaction has no balance key or a falsy balance (JSON null or
\* the number 0, so 0 becomes absent and not 0.0); every other balance is
\* converted to the decimal number of the same value.
C21_FalsyBalanceBecomesAbsent ==
    (pc = "done" /\ normalizer_input # Nothing /\ result.status = "ok") =>
      LET txns == Get(normalizer_input[1], "transactions", <<>>)
          out == result.statement.transactions
      IN /\ Len(out) = Len(txns)
         /\ \A i \in 1..Len(txns) :
              IF \/ "balance" \notin DOMAIN txns[i]
                 \/ txns[i]["balance"].json = "null"
                 \/ txns[i]["balance"] = Num(0)
              THEN out[i].balance = <<>>
              ELSE out[i].balance = <<txns[i]["balance"].v>>

\* C21 witness: a converted statement whose first transaction came with
\* balance 0 and has none, and whose second came with "7" and has 7
C21_Witness ==
    /\ pc = "done" /\ normalizer_input # Nothing /\ result.status = "ok"
    /\ Len(result.statement.transactions) = 2
    /\ LET txns == Get(normalizer_input[1], "transactions", <<>>)
       IN /\ Get(txns[1], "balance", Num(1)) = Num(0)
          /\ result.statement.transactions[1].balance = <<>>
          /\ Get(txns[2], "balance", Num(1)) = NumStr(7)
          /\ result.statement.transactions[2].balance = <<7>>

\* C22: every transaction of a Statement returned by a successful parse has
\* amount > 0; a recovered transaction with a zero or negative amount never
\* reaches the caller in a successful result.
C22_ReturnedAmountsPositive ==
    (pc = "done" /\ result.status = "ok") =>
        \A i \in 1..Len(result.statement.transactions) :
            result.statement.transactions[i].amount > 0

(* ====== the parse-statement route (routes.py) and the legacy services ===== *)
\* getattr(BankStatementParserFactory, method)(): the classes of the
\* pdf_processor and the llm_service of the orchestrator the method builds,
\* or Nothing (AttributeError) when the factory has no such method.
\* "__init__" is BankStatementParserService() with its defaults;
\* create_custom_parser takes the caller's own components and is not listed.
\* LLMServiceFactory is the one of app.services.llm_service.
BankStatementParserFactory(method) ==
    CASE method \in {"__init__", "create_vision_parser", "create_default_parser"} ->
           Some([pdf_processor |-> "ImageExtractor", llm_service |-> "OpenAIService"])
      [] method = "create_text_parser" ->
           Some([pdf_processor |-> "TextExtractor", llm_service |-> "OpenAIService"])
      [] method = "create_claude_parser" ->
           Some([pdf_processor |-> "ImageExtractor", llm_service |-> "ClaudeService"])
      [] method = "create_gemini_parser" ->
           Some([pdf_processor |-> "ImageExtractor", llm_service |-> "GeminiService"])
      [] OTHER -> Nothing

\* the factory method get_parser_service calls
get_parser_service(provider_name, vision) ==
    CASE provider_name = "openai" ->
           IF vision THEN "create_openai_vision_parser"
           ELSE "create_openai_text_parser"
      [] provider_name = "claude" -> "create_claude_parser"
      [] provider_name = "gemini" -> "create_gemini_parser"
      [] OTHER -> "create_default_parser"

\* A request to the route (stage "route"), or a call of parse_statement on an
\* orchestrator built directly by the constructor or a factory method.
RouteInit ==
    /\ file \in Uploads
    /\ use_vision \in BOOLEAN
    /\ \/ /\ llm_provider \in {"openai", "claude", "gemini"}
          /\ stage = "route"
          /\ llm_service = None
          /\ pdf_processor = None
       \/ /\ llm_provider = None
          /\ stage = "validate_upload"
          /\ \E m \in {"__init__", "create_vision_parser", "create_text_parser",
                       "create_claude_parser", "create_gemini_parser",
                       "create_default_parser"} :
                /\ llm_service = BankStatementParserFactory(m)[1].llm_service
                /\ pdf_processor = BankStatementParserFactory(m)[1].pdf_processor
    /\ http = Nothing
    /\ steps = <<>>
    /\ raised = Nothing
    /\ response = Nothing
    /\ mode = None
    /\ pc = "idle"
    /\ text_content = None
    /\ base64_images = <<>>
    /\ idx = 0
    /\ seen_hashes = {}
    /\ merged = Nothing
    /\ attempts = 0
    /\ calls = <<>>
    /\ chunks = <<>>
    /\ prev = Nothing
    /\ normalizer_input = Nothing
    /\ result = Pending
    /\ cur = 1
    /\ other = Nothing
    /\ provider = "any"
    /\ raw_content = <<>>
    /\ rpc = "idle"
    /\ recovered = Pending
    /\ applied = Nothing
    /\ projects = <<>>
    /\ categories = <<>>
    /\ bank_accounts = <<>>
    /\ statement_files = <<>>
    /\ next_id = 1
    /\ crud_result = Nothing

\* parse_bank_statement up to its await.  The first statement of the try
\* block logs file.filename, then parser_service =
\* get_parser_service(llm_provider, use_vision); an exception of either goes
\* to the route's except clause, which answers 500 with a ParsedResponse that
\* has no processing_time.  llm_provider is a (str, Enum) member, which an
\* f-string writes as LLMProvider.<name> (Python 3.11 and later).
ParseBankStatement ==
    /\ stage = "route"
    /\ LET method == get_parser_service(llm_provider, use_vision)
           built == BankStatementParserFactory(method)
           e == IF file = Nothing
                THEN Some("'NoneType' object has no attribute 'filename'")
                ELSE IF built = Nothing
                THEN Some("type object 'BankStatementParserFactory' has no "
                          \o "attribute '" \o method \o "'")
                ELSE Nothing
       IN IF e # Nothing
          THEN /\ http' = Some([status_code |-> 500,
                                content |->
                                  [success |-> FALSE, data |-> None,
                                   error |-> "Unexpected error with LLMProvider."
                                             \o llm_provider \o ": " \o e[1],
                                   processing_time |-> Nothing]])
               /\ stage' = "responded"
               /\ UNCHANGED <<llm_service, pdf_processor>>
          ELSE /\ llm_service' = built[1].llm_service
               /\ pdf_processor' = built[1].pdf_processor
               /\ stage' = "validate_upload"
               /\ UNCHANGED http
    /\ UNCHANGED <<file, use_vision, steps, raised, response, llm_provider>>
    /\ UNCHANGED <<engine, sched, rec, store>>

\* parse_bank_statement after its await: 200 with the result when
\* result.success, else 422
ParseBankStatementReturn ==
    /\ stage = "returned"
    /\ llm_provider # None
    /\ http' = Some([status_code |-> IF response[1].success THEN 200 ELSE 422,
                     content |-> response[1]])
    /\ stage' = "responded"
    /\ UNCHANGED <<file, use_vision, steps, raised, response, llm_provider,
                   llm_service, pdf_processor>>
    /\ UNCHANGED <<engine, sched, rec, store>>

\* llm_service.OpenAIService.parse_text_statement / parse_image_statement:
\* the arguments of chat.completions.create are evaluated first, and
\* self.settings.model_name raises AttributeError (Settings declares
\* llm_model_name), so no request is issued; the except clause wraps the
\* error
LegacyCall ==
    /\ stage = "engine" /\ pc = "start"
    /\ llm_service = "OpenAIService"
    /\ result' =
         [status |-> "error",
          error |-> (IF mode = "text"
                     THEN "Failed to parse statement with OpenAI: "
                     ELSE "Failed to parse statement with OpenAI Vision: ")
                    \o "'Settings' object has no attribute 'model_name'"]
    /\ pc' = "failed"
    /\ UNCHANGED <<mode, text_content, base64_images, idx, seen_hashes, merged,
                   attempts, calls, chunks, prev, normalizer_input>>
    /\ UNCHANGED <<orch, sched, rec, route, store>>

\* llm_service.ClaudeService and GeminiService raise on every call
LegacyPending ==
    /\ stage = "engine" /\ pc = "start"
    /\ llm_service \in {"ClaudeService", "GeminiService"}
    /\ result' =
         [status |-> "error",
          error |->
            CASE llm_service = "ClaudeService" /\ mode = "text" ->
                   "Failed to parse statement with Claude: Claude "
                   \o "implementation pending - add anthropic dependency"
              [] llm_service = "ClaudeService" /\ mode = "image" ->
                   "Claude vision implementation pending"
              [] llm_service = "GeminiService" /\ mode = "text" ->
                   "Gemini implementation pending - add "
                   \o "google-generativeai dependency"
              [] OTHER -> "Gemini vision implementation pending"]
    /\ pc' = "failed"
    /\ UNCHANGED <<mode, text_content, base64_images, idx, seen_hashes, merged,
                   attempts, calls, chunks, prev, normalizer_input>>
    /\ UNCHANGED <<orch, sched, rec, route, store>>

RouteSpec ==
    RouteInit /\ [][\/ ParseBankStatement
                    \/ ValidateUpload
                    \/ ReadFile
                    \/ ValidateContent
                    \/ _parse_with_vision
                    \/ _parse_with_text
                    \/ LegacyCall
                    \/ LegacyPending
                    \/ ReturnResponse
                    \/ ParseBankStatementReturn]_vars

(* ----------------------------- route claims --------------------------- *)
\* C23: a text-mode parse through an orchestrator built with its default
\* provider or by a factory method runs the pagination engine: once the call
\* has returned, the engine's first provider call was issued, and when the
\* first response carried has_more = true and a non-empty next_page_hint, a
\* follow-up call with that hint was issued and its chunk merged before the
\* Statement is returned.
C23_TextParsePaginates ==
    (mode = "text" /\ response # Nothing) =>
       /\ calls # <<>>
       /\ (/\ response[1].success
           /\ chunks # <<>>
           /\ HasMoreTruthy(chunks[1])
           /\ HintTruthy(chunks[1])) =>
             /\ Len(calls) >= 2
             /\ calls[2].hint = chunks[1]["next_page_hint"]
             /\ Len(chunks) >= 2

\* C24: for every provider of the enumeration and both values of use_vision
\* the route, given an upload, obtains a parser service and calls its
\* parse_statement, and the request does not end in the route's 500 branch.
C24_ProviderSelectionNever500 ==
    (llm_provider # None /\ file # Nothing /\ stage = "responded") =>
       /\ http[1].status_code # 500
       /\ steps # <<>>

(* ================== the CRUD services (app/features) ==================== *)
MaxIds == 3

\* ProjectService.create_project: db.add, db.commit; the row is new and active
create_project ==
    /\ next_id <= MaxIds
    /\ \E name \in {"P", "Q"} :
          projects' = Put(projects, next_id, [name |-> name, is_activated |-> TRUE])
    /\ next_id' = next_id + 1
    /\ crud_result' = Some([op |-> "create_project", args |-> <<next_id>>,
                            status |-> "ok", queries |-> 0, found |-> Nothing])
    /\ UNCHANGED <<categories, bank_accounts, statement_files>>
    /\ UNCHANGED <<engine, orch, sched, rec, route>>

\* ProjectService.update_project: the fields set in data are written to the row
update_project ==
    \E id \in 1..MaxIds, data \in {[name |-> "P"], [name |-> "Q"],
                                    [is_activated |-> TRUE], [is_activated |-> FALSE]} :
      /\ IF id \in DOMAIN projects
         THEN projects' =
                Put(projects, id,
                    [f \in DOMAIN projects[id] |->
                       IF f \in DOMAIN data THEN data[f] ELSE projects[id][f]])
         ELSE UNCHANGED projects
      /\ crud_result' =
           Some([op |-> "update_project", args |-> <<id>>,
                 status |-> IF id \in DOMAIN projects THEN "ok"
                            ELSE "NotFoundException",
                 queries |-> 1,
                 found |-> IF id \in DOMAIN projects THEN Some(projects[id])
                           ELSE Nothing])
      /\ UNCHANGED <<categories, bank_accounts, statement_files, next_id>>
      /\ UNCHANGED <<engine, orch, sched, rec, route>>

\* mutant: the row is removed from the table
delete_project_Hard ==
    \E id \in 1..MaxIds :
      /\ projects' = [x \in DOMAIN projects \ {id} |-> projects[x]]
      /\ crud_result' =
           Some([op |-> "delete_project", args |-> <<id>>,
                 status |-> IF id \in DOMAIN projects THEN "ok"
                            ELSE "NotFoundException",
                 queries |-> 1,
                 found |-> IF id \in DOMAIN projects THEN Some(projects[id])
                           ELSE Nothing])
      /\ UNCHANGED <<categories, bank_accounts, statement_files, next_id>>
      /\ UNCHANGED <<engine, orch, sched, rec, route>>

\* ProjectService.delete_project: is_activated = False on the row found by id
delete_project ==
    \E id \in 1..MaxIds :
      /\ IF id \in DOMAIN projects
         THEN projects' = Put(projects, id,
                             [projects[id] EXCEPT !.is_activated = FALSE])
         ELSE UNCHANGED projects
      /\ crud_result' =
           Some([op |-> "delete_project", args |-> <<id>>,
                 status |-> IF id \in DOMAIN projects THEN "ok"
                            ELSE "NotFoundException",
                 queries |-> 1,
                 found |-> IF id \in DOMAIN projects THEN Some(projects[id])
                           ELSE Nothing])
      /\ UNCHANGED <<categories, bank_accounts, statement_files, next_id>>
      /\ UNCHANGED <<engine, orch, sched, rec, route>>

\* ProjectService.get_project: the row with this id, whatever its is_activated
get_project(id) ==
    IF id \in DOMAIN projects THEN [status |-> "ok", value |-> projects[id]]
    ELSE [status |-> "error", error |-> "NotFoundException"]

\* CategoryService.create_category: db.add, db.commit; the row is new and active
create_category ==
    /\ next_id <= MaxIds
    /\ \E name \in {"P", "Q"} :
          categories' = Put(categories, next_id, [name |-> name, is_active |-> TRUE])
    /\ next_id' = next_id + 1
    /\ crud_result' = Some([op |-> "create_category", args |-> <<next_id>>,
                            status |-> "ok", queries |-> 0, found |-> Nothing])
    /\ UNCHANGED <<projects, bank_accounts, statement_files>>
    /\ UNCHANGED <<engine, orch, sched, rec, route>>

\* CategoryService.update_category: the fields set in data are written to the row
update_category ==
    \E id \in 1..MaxIds, data \in {[name |-> "P"], [name |-> "Q"],
                                    [is_active |-> TRUE], [is_active |-> FALSE]} :
      /\ IF id \in DOMAIN categories
         THEN categories' =
                Put(categories, id,
                    [f \in DOMAIN categories[id] |->
                       IF f \in DOMAIN data THEN data[f] ELSE categories[id][f]])
         ELSE UNCHANGED categories
      /\ crud_result' =
           Some([op |-> "update_category", args |-> <<id>>,
                 status |-> IF id \in DOMAIN categories THEN "ok"
                            ELSE "NotFoundException",
                 queries |-> 1,
                 found |-> IF id \in DOMAIN categories THEN Some(categories[id])
                           ELSE Nothing])
      /\ UNCHANGED <<projects, bank_accounts, statement_files, next_id>>
      /\ UNCHANGED <<engine, orch, sched, rec, route>>

\* CategoryService.delete_category: is_active = False on the row found by id
delete_category ==
    \E id \in 1..MaxIds :
      /\ IF id \in DOMAIN categories
         THEN categories' = Put(categories, id,
                             [categories[id] EXCEPT !.is_active = FALSE])
         ELSE UNCHANGED categories
      /\ crud_result' =
           Some([op |-> "delete_category", args |-> <<id>>,
                 status |-> IF id \in DOMAIN categories THEN "ok"
                            ELSE "NotFoundException",
                 queries |-> 1,
                 found |-> IF id \in DOMAIN categories THEN Some(categories[id])
                           ELSE Nothing])
      /\ UNCHANGED <<projects, bank_accounts, statement_files, next_id>>
      /\ UNCHANGED <<engine, orch, sched, rec, route>>

\* CategoryService.get_category: the row with this id, whatever its is_active
get_category(id) ==
    IF id \in DOMAIN categories THEN [status |-> "ok", value |-> categories[id]]
    ELSE [status |-> "error", error |-> "NotFoundException"]

\* BankAccountService.create_bank_account: the project_id must be stored
create_bank_account ==
    \E project_id \in 1..MaxIds :
      /\ next_id <= MaxIds
      /\ IF project_id \in DOMAIN projects
         THEN /\ bank_accounts' = Put(bank_accounts, next_id, [project_id |-> project_id])
              /\ next_id' = next_id + 1
         ELSE UNCHANGED <<bank_accounts, next_id>>
      /\ crud_result' =
           Some([op |-> "create_bank_account",
                 args |-> <<IF project_id \in DOMAIN projects THEN next_id
                            ELSE 0, project_id>>,
                 status |-> IF project_id \in DOMAIN projects THEN "ok"
                            ELSE "NotFoundException",
                 queries |-> 1,
                 found |-> IF project_id \in DOMAIN projects
                           THEN Some(projects[project_id]) ELSE Nothing])
      /\ UNCHANGED <<projects, categories, statement_files>>
      /\ UNCHANGED <<engine, orch, sched, rec, route>>

\* mutant: the statement files of the account are left in their table
delete_bank_account_NoCascade ==
    \E id \in 1..MaxIds :
      /\ bank_accounts' = [x \in DOMAIN bank_accounts \ {id} |-> bank_accounts[x]]
      /\ crud_result' =
           Some([op |-> "delete_bank_account", args |-> <<id>>,
                 status |-> IF id \in DOMAIN bank_accounts THEN "ok"
                            ELSE "NotFoundException",
                 queries |-> 1,
                 found |-> IF id \in DOMAIN bank_accounts THEN Some(bank_accounts[id])
                           ELSE Nothing])
      /\ UNCHANGED <<projects, categories, statement_files, next_id>>
      /\ UNCHANGED <<engine, orch, sched, rec, route>>

\* BankAccountService.delete_bank_account: db.delete on the row found by id; the
\* relationship statement_files (cascade all, delete-orphan) deletes the
\* account's statement files with it
delete_bank_account ==
    \E id \in 1..MaxIds :
      /\ IF id \in DOMAIN bank_accounts
         THEN /\ bank_accounts' = [x \in DOMAIN bank_accounts \ {id} |-> bank_accounts[x]]
              /\ statement_files' =
                   [x \in {f \in DOMAIN statement_files :
                             statement_files[f].bank_account_id # id} |->
                      statement_files[x]]
         ELSE UNCHANGED <<bank_accounts, statement_files>>
      /\ crud_result' =
           Some([op |-> "delete_bank_account", args |-> <<id>>,
                 status |-> IF id \in DOMAIN bank_accounts THEN "ok"
                            ELSE "NotFoundException",
                 queries |-> 1,
                 found |-> IF id \in DOMAIN bank_accounts
                           THEN Some(bank_accounts[id]) ELSE Nothing,
                 cascaded |-> {f \in DOMAIN statement_files :
                                 statement_files[f].bank_account_id = id}])
      /\ UNCHANGED <<projects, categories, next_id>>
      /\ UNCHANGED <<engine, orch, sched, rec, route>>

\* BankStatementFileService.create_statement_file: the bank_account_id must be stored
create_statement_file ==
    \E bank_account_id \in 1..MaxIds :
      /\ next_id <= MaxIds
      /\ IF bank_account_id \in DOMAIN bank_accounts
         THEN /\ statement_files' = Put(statement_files, next_id, [bank_account_id |-> bank_account_id])
              /\ next_id' = next_id + 1
         ELSE UNCHANGED <<statement_files, next_id>>
      /\ crud_result' =
           Some([op |-> "create_statement_file",
                 args |-> <<IF bank_account_id \in DOMAIN bank_accounts THEN next_id
                            ELSE 0, bank_account_id>>,
                 status |-> IF bank_account_id \in DOMAIN bank_accounts THEN "ok"
                            ELSE "NotFoundException",
                 queries |-> 1,
                 found |-> IF bank_account_id \in DOMAIN bank_accounts
                           THEN Some(bank_accounts[bank_account_id]) ELSE Nothing])
      /\ UNCHANGED <<projects, categories, bank_accounts>>
      /\ UNCHANGED <<engine, orch, sched, rec, route>>

\* BankStatementFileService.delete_statement_file: db.delete on the row found by id
delete_statement_file ==
    \E id \in 1..MaxIds :
      /\ IF id \in DOMAIN statement_files
         THEN statement_files' = [x \in DOMAIN statement_files \ {id} |-> statement_files[x]]
         ELSE UNCHANGED statement_files
      /\ crud_result' =
           Some([op |-> "delete_statement_file", args |-> <<id>>,
                 status |-> IF id \in DOMAIN statement_files THEN "ok"
                            ELSE "NotFoundException",
                 queries |-> 1,
                 found |-> IF id \in DOMAIN statement_files THEN Some(statement_files[id])
                           ELSE Nothing])
      /\ UNCHANGED <<projects, categories, bank_accounts, next_id>>
      /\ UNCHANGED <<engine, orch, sched, rec, route>>

\* ProjectService.get_projects: if page < 1: raise; if page_size < 1 or page_size > 100: raise;
\* then the count query and the page query
get_projects ==
    \E page \in {0 - 1, 0, 1, 2, 3}, page_size \in {0, 1, 100, 101} :
      /\ crud_result' =
           Some([op |-> "get_projects", args |-> <<page, page_size>>,
                 status |-> IF page < 1 \/ page_size < 1 \/ page_size > 100
                            THEN "BadRequestException" ELSE "ok",
                 queries |-> IF page < 1 \/ page_size < 1 \/ page_size > 100 THEN 0 ELSE 2,
                 found |-> Nothing])
      /\ UNCHANGED <<projects, categories, bank_accounts, statement_files,
                     next_id>>
      /\ UNCHANGED <<engine, orch, sched, rec, route>>

\* BankAccountService.get_bank_accounts: if page < 1: raise; if page_size < 1 or page_size > 100: raise;
\* then the count query and the page query
get_bank_accounts ==
    \E page \in {0 - 1, 0, 1, 2, 3}, page_size \in {0, 1, 100, 101} :
      /\ crud_result' =
           Some([op |-> "get_bank_accounts", args |-> <<page, page_size>>,
                 status |-> IF page < 1 \/ page_size < 1 \/ page_size > 100
                            THEN "BadRequestException" ELSE "ok",
                 queries |-> IF page < 1 \/ page_size < 1 \/ page_size > 100 THEN 0 ELSE 2,
                 found |-> Nothing])
      /\ UNCHANGED <<projects, categories, bank_accounts, statement_files,
                     next_id>>
      /\ UNCHANGED <<engine, orch, sched, rec, route>>

\* CategoryService.get_categories: if page < 1: raise; if page_size < 1 or page_size > 100: raise;
\* then the count query and the page query
get_categories ==
    \E page \in {0 - 1, 0, 1, 2, 3}, page_size \in {0, 1, 100, 101} :
      /\ crud_result' =
           Some([op |-> "get_categories", args |-> <<page, page_size>>,
                 status |-> IF page < 1 \/ page_size < 1 \/ page_size > 100
                            THEN "BadRequestException" ELSE "ok",
                 queries |-> IF page < 1 \/ page_size < 1 \/ page_size > 100 THEN 0 ELSE 2,
                 found |-> Nothing])
      /\ UNCHANGED <<projects, categories, bank_accounts, statement_files,
                     next_id>>
      /\ UNCHANGED <<engine, orch, sched, rec, route>>

\* BankStatementFileService.get_statement_files: if page < 1: raise; if page_size > 100: raise;
\* then the count query and the page query
get_statement_files ==
    \E page \in {0 - 1, 0, 1, 2, 3}, page_size \in {0, 1, 100, 101} :
      /\ crud_result' =
           Some([op |-> "get_statement_files", args |-> <<page, page_size>>,
                 status |-> IF page < 1 \/ page_size > 100
                            THEN "BadRequestException" ELSE "ok",
                 queries |-> IF page < 1 \/ page_size > 100 THEN 0 ELSE 2,
                 found |-> Nothing])
      /\ UNCHANGED <<projects, categories, bank_accounts, statement_files,
                     next_id>>
      /\ UNCHANGED <<engine, orch, sched, rec, route>>

\* BankStatementEntryService.get_entries: if page < 1: raise; if page_size > 100: raise;
\* then the count query and the page query
get_entries ==
    \E page \in {0 - 1, 0, 1, 2, 3}, page_size \in {0, 1, 100, 101} :
      /\ crud_result' =
           Some([op |-> "get_entries", args |-> <<page, page_size>>,
                 status |-> IF page < 1 \/ page_size > 100
                            THEN "BadRequestException" ELSE "ok",
                 queries |-> IF page < 1 \/ page_size > 100 THEN 0 ELSE 2,
                 found |-> Nothing])
      /\ UNCHANGED <<projects, categories, bank_accounts, statement_files,
                     next_id>>
      /\ UNCHANGED <<engine, orch, sched, rec, route>>

\* EntrySplitService.get_splits: if page < 1: raise; if page_size > 100: raise;
\* then the count query and the page query
get_splits ==
    \E page \in {0 - 1, 0, 1, 2, 3}, page_size \in {0, 1, 100, 101} :
      /\ crud_result' =
           Some([op |-> "get_splits", args |-> <<page, page_size>>,
                 status |-> IF page < 1 \/ page_size > 100
                            THEN "BadRequestException" ELSE "ok",
                 queries |-> IF page < 1 \/ page_size > 100 THEN 0 ELSE 2,
                 found |-> Nothing])
      /\ UNCHANGED <<projects, categories, bank_accounts, statement_files,
                     next_id>>
      /\ UNCHANGED <<engine, orch, sched, rec, route>>

\* an empty database; no statement is being parsed
CrudInit ==
    /\ Idle
    /\ raw_content = <<>>
    /\ rpc = "idle"
    /\ recovered = Pending
    /\ applied = Nothing
    /\ llm_provider = None
    /\ llm_service = "BaseLLMService"
    /\ pdf_processor = "ImageExtractor"
    /\ http = Nothing
    /\ projects = <<>>
    /\ categories = <<>>
    /\ bank_accounts = <<>>
    /\ statement_files = <<>>
    /\ next_id = 1
    /\ crud_result = Nothing

\* the operations that write the store
CrudSpec ==
    CrudInit /\ [][\/ create_project
                   \/ update_project
                   \/ delete_project
                   \/ create_category
                   \/ update_category
                   \/ delete_category
                   \/ create_bank_account
                   \/ delete_bank_account
                   \/ create_statement_file
                   \/ delete_statement_file]_vars

\* the list operations, on the empty database
ListSpec ==
    CrudInit /\ [][\/ get_projects
                   \/ get_bank_accounts
                   \/ get_categories
                   \/ get_statement_files
                   \/ get_entries
                   \/ get_splits]_vars

(* ---------------------- claims on the CRUD services --------------------- *)

\* C25: deleting a project or a category is a soft delete: no operation ever
\* removes a project or a category, get_project / get_category still return
\* every one of them, a delete only clears is_activated / is_active, and
\* deleting a record that is already inactive succeeds again.
C25_SoftDelete ==
    [][/\ \A id \in DOMAIN projects :
            /\ id \in DOMAIN projects'
            /\ get_project(id)'.status = "ok"
       /\ \A id \in DOMAIN categories :
            /\ id \in DOMAIN categories'
            /\ get_category(id)'.status = "ok"
       /\ \A id \in DOMAIN projects :
            (crud_result'[1].op = "delete_project"
               /\ crud_result'[1].args = <<id>>)
              => /\ crud_result'[1].status = "ok"
                 /\ projects' = Put(projects, id,
                                    [projects[id] EXCEPT
                                       !.is_activated = FALSE])
       /\ \A id \in DOMAIN categories :
            (crud_result'[1].op = "delete_category"
               /\ crud_result'[1].args = <<id>>)
              => /\ crud_result'[1].status = "ok"
                 /\ categories' = Put(categories, id,
                                      [categories[id] EXCEPT
                                         !.is_active = FALSE])]_vars

\* a project that was already inactive has been deleted again, with success,
\* and get_project still returns it
C25_Witness ==
    /\ crud_result # Nothing
    /\ crud_result[1].op = "delete_project"
    /\ crud_result[1].status = "ok"
    /\ crud_result[1].found # Nothing
    /\ crud_result[1].found[1].is_activated = FALSE
    /\ get_project(crud_result[1].args[1]).status = "ok"
    /\ get_project(crud_result[1].args[1]).value.is_activated = FALSE

\* C26: project names are unique: no two stored projects have the same name.
C26_ProjectNamesUnique ==
    \A a \in DOMAIN projects, b \in DOMAIN projects :
      projects[a].name = projects[b].name => a = b

\* C27: a list operation called with page < 1 or page_size outside 1..100
\* raises BadRequestException and has issued no database query.
C27_InvalidPaginationRejected ==
    (/\ crud_result # Nothing
     /\ crud_result[1].op \in {"get_projects", "get_bank_accounts",
                               "get_categories", "get_statement_files",
                               "get_entries", "get_splits"})
      => LET page == crud_result[1].args[1]
             page_size == crud_result[1].args[2]
         IN  (page < 1 \/ page_size < 1 \/ page_size > 100)
               => /\ crud_result[1].status = "BadRequestException"
                  /\ crud_result[1].queries = 0

\* C30: referential integrity: a create with an unknown parent raises
\* NotFoundException and adds no record, and in every state each stored bank
\* account references a stored project and each stored statement file
\* references a stored bank account.
C30_ReferentialIntegrity ==
    /\ [](/\ \A a \in DOMAIN bank_accounts :
               bank_accounts[a].project_id \in DOMAIN projects
          /\ \A f \in DOMAIN statement_files :
               statement_files[f].bank_account_id \in DOMAIN bank_accounts)
    /\ [][/\ (crud_result'[1].op = "create_bank_account"
                /\ crud_result'[1].args[2] \notin DOMAIN projects)
               => /\ crud_result'[1].status = "NotFoundException"
                  /\ bank_accounts' = bank_accounts
          /\ (crud_result'[1].op = "create_statement_file"
                /\ crud_result'[1].args[2] \notin DOMAIN bank_accounts)
               => /\ crud_result'[1].status = "NotFoundException"
                  /\ statement_files' = statement_files]_vars

\* a bank account that had a statement file has been deleted, and the file
\* is gone with it
C30_Witness ==
    /\ crud_result # Nothing
    /\ crud_result[1].op = "delete_bank_account"
    /\ crud_result[1].status = "ok"
    /\ crud_result[1].args[1] \notin DOMAIN bank_accounts
    /\ crud_result[1].cascaded # {}
    /\ crud_result[1].cascaded \cap DOMAIN statement_files = {}

(* ---------------- claim on _extract_first_json_object ------------------ *)

\* C28: _extract_first_json_object returns nothing when the text has no
\* opening brace or the depth never returns to zero; otherwise it returns the
\* substring from the first opening brace through the first closing brace at
\* which the depth, counted outside double-quoted strings and with a
\* backslash protecting the next character of a string, is zero again.  A
\* result starts with an opening brace, ends with a closing brace and has
\* balanced braces outside strings.
C28_FirstBalancedObject ==
    (applied # Nothing /\ applied[1].fn = "_extract_first_json_object") =>
      LET s == raw_content
          out == applied[1].out
          braces == {i \in 1..Len(s) : s[i] = "{"}
          first == IF braces = {} THEN Len(s) + 1
                   ELSE CHOOSE i \in braces : \A j \in braces : i <= j
          \* after the characters first..k: the depth, whether a string is
          \* open, and whether its next character is protected
          st[k \in (first - 1)..Len(s)] ==
              IF k = first - 1
              THEN [depth |-> 0, str |-> FALSE, esc |-> FALSE]
              ELSE LET b == st[k - 1]
                   IN IF b.str
                      THEN IF b.esc THEN [b EXCEPT !.esc = FALSE]
                           ELSE IF s[k] = "\\" THEN [b EXCEPT !.esc = TRUE]
                           ELSE IF s[k] = "\"" THEN [b EXCEPT !.str = FALSE]
                           ELSE b
                      ELSE IF s[k] = "\"" THEN [b EXCEPT !.str = TRUE]
                           ELSE IF s[k] = "{"
                           THEN [b EXCEPT !.depth = b.depth + 1]
                           ELSE IF s[k] = "}"
                           THEN [b EXCEPT !.depth = b.depth - 1]
                           ELSE b
          closes == {k \in first..Len(s) :
                       /\ s[k] = "}"
                       /\ ~st[k - 1].str
                       /\ st[k].depth = 0}
      IN /\ (braces = {} \/ closes = {}) <=> out = Nothing
         /\ out # Nothing =>
              /\ out[1] = SubSeq(s, first,
                                 CHOOSE k \in closes : \A m \in closes : k <= m)
              /\ Head(out[1]) = "{"
              /\ out[1][Len(out[1])] = "}"
              /\ Cardinality({k \in first..(first + Len(out[1]) - 1) :
                                s[k] = "{" /\ ~st[k - 1].str})
                 = Cardinality({k \in first..(first + Len(out[1]) - 1) :
                                  s[k] = "}" /\ ~st[k - 1].str})

\* an object in the middle of a text was extracted, and a string inside it
\* holds an escaped quote followed by a closing brace
C28_Witness ==
    /\ applied # Nothing
    /\ applied[1].fn = "_extract_first_json_object"
    /\ applied[1].out # Nothing
    /\ Head(raw_content) # "{"
    /\ Len(applied[1].out[1]) < Len(raw_content) - 6
    /\ \E k \in 1..(Len(applied[1].out[1]) - 2) :
         /\ applied[1].out[1][k] = "\\"
         /\ applied[1].out[1][k + 1] = "\""
         /\ applied[1].out[1][k + 2] = "}"

(* ----------------- claim on the shape of ParsedResponse ---------------- *)

\* C29: a response of parse_statement with success true carries a statement
\* and no error, one with success false carries no data and an error
\* message, and both carry a processing time; a call produces one response:
\* it has one exactly when it has returned, and a response, once produced,
\* is never replaced.
C29_ResponseShape ==
    /\ [](/\ response # Nothing =>
               /\ response[1].success \in BOOLEAN
               /\ response[1].processing_time # Nothing
               /\ response[1].success =>
                    /\ response[1].error = None
                    /\ (StatementRequired \cup {"transactions", "currency"})
                         \subseteq DOMAIN response[1].data
               /\ ~response[1].success =>
                    /\ response[1].data = None
                    /\ response[1].error # None
          /\ response # Nothing <=> stage = "returned")
    /\ [][response # Nothing => response' = response]_vars

\* a call has returned a success response with a statement of two
\* transactions and its elapsed time
C29_Witness ==
    /\ stage = "returned"
    /\ response # Nothing
    /\ response[1].success
    /\ response[1].processing_time = Some(4)
    /\ Len(response[1].data.transactions) = 2

====
